---------------------------- MODULE Spec2Model ----------------------------
(***************************************************************************)
(* Model of launch_config_validator/validate_launch_config.py.             *)
(*                                                                         *)
(* Representation.                                                         *)
(*  - A Python str is a sequence of symbols.  "$", "(", ")", " ", "/" and  *)
(*    "." are single characters; every other symbol is a maximal run of    *)
(*    the characters [A-Za-z0-9_-] (a word), so two words are never        *)
(*    adjacent in a string.                                                *)
(*  - A pathlib.Path is [abs, parts]; a part is a non-empty string.        *)
(*  - A YAML node / Python value is a tagged record [tag, val].            *)
(*  - The file system holds no symbolic links, so Path.resolve() is the    *)
(*    lexical normalisation against the working directory.                 *)
(***************************************************************************)
EXTENDS Integers, Sequences, FiniteSets, TLC

VARIABLES
    resolver_present,        \* get_package_share_directory is not None (l.43-50)
    installed,               \* packages the ament index resolves
    manifests,               \* package.xml files of the workspace: [dir, name]
    schemas,                 \* documents LAUNCH_SCHEMA / CONFIG_SCHEMA reject
    files,                   \* validate_files / check_files argument
    pc,                      \* position in check_files / validate_files
    idx,                     \* loop index of the running for-loop
    infos,                   \* classify_files: infos
    referenced_config_paths, \* classify_files: referenced_config_paths
    first_pass_issues,       \* classify_files: issues
    all_issues,              \* validate_files: all_issues, per value of isolated_ci
    result,                  \* ValidationResult, per value of isolated_ci
    exit_code,               \* check_files return value, per value of isolated_ci
    visited,                 \* history: <<pass, path>> of every loop iteration run
    fn_in,                   \* argument of a directly called function
    fn_out                   \* its return value

vars == <<resolver_present, installed, manifests, schemas, files, pc, idx, infos,
          referenced_config_paths, first_pass_issues, all_issues, result,
          exit_code, visited, fn_in, fn_out>>

envVars == <<resolver_present, installed, manifests, schemas>>

NONE == [tag |-> "none", val |-> <<>>]

----------------------------------------------------------------------------
(* Generic sequence helpers                                                *)

RECURSIVE SeqToSet(_)
SeqToSet(s) == IF s = <<>> THEN {} ELSE {Head(s)} \cup SeqToSet(Tail(s))

RECURSIVE Flatten(_)
Flatten(ss) == IF ss = <<>> THEN <<>> ELSE Head(ss) \o Flatten(Tail(ss))

RECURSIVE SelectSeqBy(_, _)
SelectSeqBy(s, keep) ==
    IF s = <<>> THEN <<>>
    ELSE IF Head(s) \in keep THEN <<Head(s)>> \o SelectSeqBy(Tail(s), keep)
         ELSE SelectSeqBy(Tail(s), keep)

IsPrefix(p, s) == Len(p) <= Len(s) /\ SubSeq(s, 1, Len(p)) = p

----------------------------------------------------------------------------
(* Strings                                                                 *)

IsWs(c) == c = " "

\* str.strip()
RECURSIVE LStrip(_)
LStrip(s) == IF s # <<>> /\ IsWs(Head(s)) THEN LStrip(Tail(s)) ELSE s

RECURSIVE RStrip(_)
RStrip(s) ==
    IF s # <<>> /\ IsWs(s[Len(s)]) THEN RStrip(SubSeq(s, 1, Len(s) - 1)) ELSE s

Strip(s) == RStrip(LStrip(s))

\* first index >= i whose symbol is not whitespace (Len(s)+1 if none): \s*
RECURSIVE SkipWs(_, _)
SkipWs(s, i) == IF i <= Len(s) /\ IsWs(s[i]) THEN SkipWs(s, i + 1) ELSE i

\* first index >= i holding symbol c, 0 if none
RECURSIVE IndexOf(_, _, _)
IndexOf(s, c, i) ==
    IF i > Len(s) THEN 0 ELSE IF s[i] = c THEN i ELSE IndexOf(s, c, i + 1)

\* "$(" in s
ContainsDollarParen(s) ==
    \E i \in 1..(Len(s) - 1) : s[i] = "$" /\ s[i + 1] = "("

\* symbols matching [A-Za-z0-9_-]+ : everything but punctuation
\* the NUL character, as YAML's "\0" escape gives it
Nul == "^@"

\* the backslash character
Backslash == "\\"

Punct == {"$", "(", ")", " ", "/", ".", "..", "...", Nul, Backslash}
IsWord(c) == c \notin Punct

\* a call either returns a value or raises an exception
Raise(what) == [ok |-> FALSE, val |-> what]
Return(v) == [ok |-> TRUE, val |-> v]

----------------------------------------------------------------------------
(* pathlib                                                                 *)

Cwd == << <<"ws">>, <<"src">>, <<"demo">> >>

\* split a string on "/" into its runs (empty runs included)
RECURSIVE SplitSlash(_, _)
SplitSlash(s, cur) ==
    IF s = <<>> THEN <<cur>>
    ELSE IF Head(s) = "/" THEN <<cur>> \o SplitSlash(Tail(s), <<>>)
         ELSE SplitSlash(Tail(s), Append(cur, Head(s)))

\* Path(str): empty and "." components are dropped, ".." is kept
PathOf(s) ==
    LET runs == SplitSlash(s, <<>>)
        kept == SelectSeq(runs, LAMBDA r : r # <<>> /\ r # <<".">>)
    IN  [abs |-> (s # <<>> /\ s[1] = "/"), parts |-> kept]

RECURSIVE JoinParts(_)
JoinParts(parts) ==
    IF parts = <<>> THEN <<>>
    ELSE IF Len(parts) = 1 THEN parts[1]
         ELSE parts[1] \o <<"/">> \o JoinParts(Tail(parts))

\* str(path)
StrOfPath(p) ==
    IF p.abs THEN <<"/">> \o JoinParts(p.parts)
    ELSE IF p.parts = <<>> THEN <<".">> ELSE JoinParts(p.parts)

\* path.parent
Parent(p) ==
    IF p.parts = <<>> THEN p
    ELSE [abs |-> p.abs, parts |-> SubSeq(p.parts, 1, Len(p.parts) - 1)]

\* path.name
NameOf(p) == IF p.parts = <<>> THEN <<>> ELSE p.parts[Len(p.parts)]

\* a / b
JoinPath(a, b) ==
    IF b.abs THEN b ELSE [abs |-> a.abs, parts |-> a.parts \o b.parts]

RECURSIVE Normalize(_, _)
Normalize(parts, acc) ==
    IF parts = <<>> THEN acc
    ELSE IF Head(parts) = <<"..">>
         THEN Normalize(Tail(parts),
                        IF acc = <<>> THEN acc ELSE SubSeq(acc, 1, Len(acc) - 1))
         ELSE Normalize(Tail(parts), Append(acc, Head(parts)))

\* path.resolve(): absolute, ".." eliminated
Resolve(p) ==
    [abs |-> TRUE,
     parts |-> Normalize(IF p.abs THEN p.parts ELSE Cwd \o p.parts, <<>>)]

\* an embedded null byte in the path
HasNul(p) ==
    \E i \in DOMAIN p.parts : \E j \in DOMAIN p.parts[i] : p.parts[i][j] = Nul

\* path.resolve() as a call: os.path.realpath raises ValueError on an
\* embedded null byte
ResolveCall(p) == IF HasNul(p) THEN Raise("ValueError") ELSE Return(Resolve(p))

\* one symbol for a run of more than 255 letters, the longest name a
\* directory entry can have
LongName == "a*300"

TooLong(part) == \E j \in DOMAIN part : part[j] = LongName

AbsPath(parts) == [abs |-> TRUE, parts |-> parts]
RelPath(parts) == [abs |-> FALSE, parts |-> parts]


----------------------------------------------------------------------------
(* File system of the run: the YAML files on disk (fixed) and the          *)
(* package.xml manifests (variable manifests).                             *)

YAML == <<".", "yaml">>
DemoDir == Cwd
NavDir == << <<"ws">>, <<"src">>, <<"nav">> >>
InstallNavDir == << <<"ws">>, <<"install">>, <<"nav">> >>
PackageXml == <<"package", ".", "xml">>

MainLaunch == <<"main", ".", "launch">> \o YAML
ChildLaunch == <<"child", ".", "launch">> \o YAML

FsFiles ==
    { DemoDir \o << <<"launch">>, MainLaunch >>,
      DemoDir \o << <<"launch">>, ChildLaunch >>,
      DemoDir \o << <<"launch">>, <<"nodes">> \o YAML >>,
      DemoDir \o << <<"config">>, <<"p">> \o YAML >>,
      DemoDir \o << <<"config">>, <<"aux">> \o YAML >>,
      DemoDir \o << <<"config">>, <<"bad">> \o YAML >>,
      DemoDir \o << <<"misc">>, <<"q">> \o YAML >>,
      NavDir \o << <<"config">>, <<"n">> \o YAML >>,
      << <<"opt">>, <<"ros">>, <<"share">>, <<"nav">>, <<"config">>, <<"n">> \o YAML >> }

ManifestPool ==
    { {},
      { [dir |-> DemoDir, name |-> <<"demo">>],
        [dir |-> NavDir, name |-> <<"nav">>] },
      { [dir |-> DemoDir, name |-> <<"demo">>],
        [dir |-> InstallNavDir, name |-> <<"nav">>] } }

AllFiles == FsFiles \cup { m.dir \o <<PackageXml>> : m \in manifests }

\* Path.is_file()
IsFile(p) == Resolve(p).parts \in AllFiles

\* Path.is_dir()
IsDir(p) ==
    LET d == Resolve(p).parts
    IN  \E f \in AllFiles : Len(d) < Len(f) /\ IsPrefix(d, f)

\* the lookup of p reaches a component that is too long to be a name:
\* every component before it is an existing directory
NameTooLong(p) ==
    LET parts == Resolve(p).parts
    IN  \E k \in DOMAIN parts :
            TooLong(parts[k]) /\ IsDir(AbsPath(SubSeq(parts, 1, k - 1)))

\* Path.is_file() as a call: False on an embedded null byte and on a missing
\* entry, OSError (ENAMETOOLONG) when stat() meets an over-long name
IsFileCall(p) ==
    IF HasNul(p) THEN Return(FALSE)
    ELSE IF NameTooLong(p) THEN Raise("OSError")
    ELSE Return(IsFile(p))

\* (path, *path.parents) as absolute part lists, nearest first
Ancestors(parts) == [k \in 1..(Len(parts) + 1) |-> SubSeq(parts, 1, Len(parts) + 1 - k)]

\* first element of sequence s satisfying membership in set ok, NONE if none
RECURSIVE FirstIn(_, _)
FirstIn(s, ok) ==
    IF s = <<>> THEN NONE
    ELSE IF Head(s) \in ok THEN [tag |-> "some", val |-> Head(s)]
         ELSE FirstIn(Tail(s), ok)

\* _find_workspace_root(package_dir)
find_workspace_root(pkg_dir) ==
    FirstIn(Ancestors(pkg_dir),
            { a \in SeqToSet(Ancestors(pkg_dir)) :
                /\ IsDir(AbsPath(Append(a, <<"src">>)))
                /\ IsPrefix(Append(a, <<"src">>), pkg_dir) })

\* _find_local_package_path(pkg, current_file): the package directory or NONE.
\* start: the directory the upward walk begins at (l.118-120)
StartDir(res) == IF IsFile(res) THEN Parent(res).parts ELSE res.parts

\* search_root once the enclosing package directory is known (l.134-139)
SearchRootOfPackage(pkg_dir, ws_root) ==
    IF ws_root.tag = "some" THEN Append(ws_root.val, <<"src">>)
    ELSE SubSeq(pkg_dir, 1, Len(pkg_dir) - 1)

\* search_root (l.133-139); cand is candidate_pkg_dir
SearchRoot(start, cand) ==
    IF cand.tag = "none" THEN start
    ELSE SearchRootOfPackage(cand.val, find_workspace_root(cand.val))

\* the first hit of the rglob loop (l.141-154).  Manifest names are unique
\* below a search root, so the order of rglob does not matter.
FirstFound(found) ==
    IF found = {} THEN NONE
    ELSE [tag |-> "some", val |-> AbsPath((CHOOSE m \in found : TRUE).dir)]

LocalSearch(pkg, search_root) ==
    FirstFound({ m \in manifests :
                   /\ IsPrefix(search_root, m.dir)
                   /\ <<"build">> \notin SeqToSet(m.dir)
                   /\ <<"install">> \notin SeqToSet(m.dir)
                   /\ m.name = pkg })

LocalFrom(pkg, start) ==
    LocalSearch(pkg, SearchRoot(start, FirstIn(Ancestors(start),
                                               { m.dir : m \in manifests })))

find_local_package_path(pkg, current_file) ==
    LocalFrom(pkg, StartDir(Resolve(current_file)))

\* ament_index_python: get_package_share_directory / get_package_prefix.
\* [tag |-> "raise"] stands for the lookup raising.
RosPrefix == << <<"opt">>, <<"ros">> >>
resolver(kind, pkg) ==
    IF pkg \notin installed THEN [tag |-> "raise", val |-> <<>>]
    ELSE IF kind = "find-pkg-share"
         THEN [tag |-> "some",
               val |-> StrOfPath(AbsPath(RosPrefix \o << <<"share">>, pkg >>))]
         ELSE [tag |-> "some", val |-> StrOfPath(AbsPath(RosPrefix))]

----------------------------------------------------------------------------
(* Issues                                                                  *)

\* Issue(path, message): kind defaults to "error" (l.160-164).  A message is
\* its fixed text, the value formatted into it, and the closest-match hint.
Issue(path, text, arg, hint) ==
    [path |-> path, kind |-> "error",
     message |-> [text |-> text, arg |-> arg, hint |-> hint]]

----------------------------------------------------------------------------
(* $(find-pkg-share ...) resolution                                        *)

PkgVerbs == {"find-pkg-share", "find-pkg-prefix"}

\* FIND_PKG_RE matched at index i of s:
\*   \$\(\s*(find-pkg-share|find-pkg-prefix)\s+([^)]+?)\s*\)
\* The argument runs to the first ")" after the verb; it must start with
\* whitespace and hold at least one more symbol.
FindPkgMatch(s, i) ==
    LET j     == SkipWs(s, i + 2)
        close == IndexOf(s, ")", j + 1)
    IN  IF /\ i + 1 <= Len(s) /\ s[i] = "$" /\ s[i + 1] = "("
           /\ j + 1 <= Len(s) /\ s[j] \in PkgVerbs /\ IsWs(s[j + 1])
           /\ close >= j + 3
        THEN [ok |-> TRUE, end |-> close, kind |-> s[j],
              pkg |-> Strip(SubSeq(s, j + 1, close - 1)),
              text |-> SubSeq(s, i, close)]
        ELSE [ok |-> FALSE, end |-> 0, kind |-> "", pkg |-> <<>>, text |-> <<>>]

UnresolvedMarker == <<"$", "(", "var", " ", "...", ")">>

Unissued(text) == [text |-> text, issues |-> <<>>]

\* repl_pkg, resolver is None (l.322-325)
LocalOnly(m, local) ==
    Unissued(IF local.tag = "some" THEN StrOfPath(local.val) ELSE m.text)

\* Fallback without the local discovery of l.331-333
FallbackGivesUp(m, local, current_file, isolated_ci) ==
    [text |-> m.text,
     issues |-> IF isolated_ci THEN <<>>
                ELSE <<Issue(current_file, "Cannot resolve package",
                             m.pkg, <<m.kind>>)>>]

\* repl_pkg, the except branch (l.330-341)
Fallback(m, local, current_file, isolated_ci) ==
    IF local.tag = "some" THEN Unissued(StrOfPath(local.val))
    ELSE [text |-> m.text,
          issues |-> IF isolated_ci THEN <<>>
                     ELSE <<Issue(current_file, "Cannot resolve package",
                                  m.pkg, <<m.kind>>)>>]

\* repl_pkg, the try statement (l.327-341); looked is resolver(pkg)
Looked(m, looked, current_file, isolated_ci) ==
    IF looked.tag = "some" THEN Unissued(looked.val)
    ELSE Fallback(m, find_local_package_path(m.pkg, current_file),
                  current_file, isolated_ci)

\* repl_pkg without the test of l.318-319
repl_pkg_any_argument(m, current_file, isolated_ci) ==
    IF ~resolver_present
    THEN LocalOnly(m, find_local_package_path(m.pkg, current_file))
    ELSE Looked(m, resolver(m.kind, m.pkg), current_file, isolated_ci)

\* repl_pkg(match): [text, issues]
repl_pkg(m, current_file, isolated_ci) ==
    IF "$" \in SeqToSet(m.pkg) THEN Unissued(UnresolvedMarker)
    ELSE IF ~resolver_present
         THEN LocalOnly(m, find_local_package_path(m.pkg, current_file))
         ELSE Looked(m, resolver(m.kind, m.pkg), current_file, isolated_ci)

Cat(a, b) == [text |-> a.text \o b.text, issues |-> a.issues \o b.issues]

\* FIND_PKG_RE.sub(repl_pkg, expr) from index i on
RECURSIVE FindPkgSub(_, _, _, _)
FindPkgStep(s, i, m, current_file, isolated_ci) ==
    IF m.ok
    THEN Cat(repl_pkg(m, current_file, isolated_ci),
             FindPkgSub(s, m.end + 1, current_file, isolated_ci))
    ELSE Cat(Unissued(<<s[i]>>), FindPkgSub(s, i + 1, current_file, isolated_ci))

FindPkgSub(s, i, current_file, isolated_ci) ==
    IF i > Len(s) THEN Unissued(<<>>)
    ELSE FindPkgStep(s, i, FindPkgMatch(s, i), current_file, isolated_ci)

\* DIRNAME_RE matched at index i: \$\(\s*dirname\s*\) ; the index of ")" or 0
DirnameMatch(s, i) ==
    LET j == SkipWs(s, i + 2)
        k == SkipWs(s, j + 1)
    IN  IF /\ i + 1 <= Len(s) /\ s[i] = "$" /\ s[i + 1] = "("
           /\ j <= Len(s) /\ s[j] = "dirname"
           /\ k <= Len(s) /\ s[k] = ")"
        THEN k ELSE 0

\* DIRNAME_RE.sub(str(current_file.parent), s) from index i on
RECURSIVE DirnameSub(_, _, _)
DirnameStep(s, i, close, repl) ==
    IF close # 0 THEN repl \o DirnameSub(s, close + 1, repl)
    ELSE <<s[i]>> \o DirnameSub(s, i + 1, repl)

DirnameSub(s, i, repl) ==
    IF i > Len(s) THEN <<>> ELSE DirnameStep(s, i, DirnameMatch(s, i), repl)

\* the characters of the multi-character symbols used in file names
WordChars ==
    [main |-> <<"m","a","i","n">>, child |-> <<"c","h","i","l","d">>,
     nodes |-> <<"n","o","d","e","s">>, launch |-> <<"l","a","u","n","c","h">>,
     yaml |-> <<"y","a","m","l">>, yml |-> <<"y","m","l">>,
     aux |-> <<"a","u","x">>, bad |-> <<"b","a","d">>,
     config |-> <<"c","o","n","f","i","g">>, misc |-> <<"m","i","s","c">>,
     xml |-> <<"x","m","l">>, package |-> <<"p","a","c","k","a","g","e">>,
     src |-> <<"s","r","c">>, demo |-> <<"d","e","m","o">>,
     nav |-> <<"n","a","v">>, ws |-> <<"w","s">>, Q |-> <<"Q">>,
     la |-> <<"l","a">>, unch |-> <<"u","n","c","h">>,
     aunch |-> <<"a","u","n","c","h">>, re |-> <<"r","e">>, er |-> <<"e","r">>,
     confg |-> <<"c","o","n","f","g">>]

CharsOf(sym) == IF sym \in DOMAIN WordChars THEN WordChars[sym] ELSE <<sym>>

\* the characters a backslash and a letter stand for in a replacement
\* template of re.sub
ControlChar ==
    [a |-> "^G", b |-> "^H", f |-> "^L", n |-> "^J", r |-> "^M", t |-> "^I",
     v |-> "^K"]

\* c in front of the outcome r
Cons(c, r) == IF r.ok THEN Return(c \o r.val) ELSE r

\* re.sub reads its replacement string (l.346) as a template: a backslash
\* with a letter is a control character or, for any other letter, a bad
\* escape (re.error); with a digit it is NUL for 0 and an invalid group
\* reference otherwise, DIRNAME_RE having no group; a doubled backslash is
\* one backslash; a backslash at the end is an error; before any other
\* character it stays.  The symbol after a backslash is read character by
\* character.
RECURSIVE ExpandTemplate(_)
ExpandEscape(c, rest) ==
    IF c = Backslash THEN Cons(<<Backslash>>, ExpandTemplate(rest))
    ELSE IF c \in DOMAIN ControlChar THEN Cons(<<ControlChar[c]>>, ExpandTemplate(rest))
    ELSE IF c = "0" THEN Cons(<<Nul>>, ExpandTemplate(rest))
    ELSE IF IsWord(c) /\ c \notin {"_", "-"} THEN Raise("re.error")
    ELSE Cons(<<Backslash, c>>, ExpandTemplate(rest))

ExpandTemplate(chars) ==
    IF chars = <<>> THEN Return(<<>>)
    ELSE IF Head(chars) # Backslash THEN Cons(<<Head(chars)>>, ExpandTemplate(Tail(chars)))
    ELSE IF Len(chars) = 1 THEN Raise("re.error")
    ELSE ExpandEscape(Head(CharsOf(chars[2])),
                      Tail(CharsOf(chars[2])) \o Tail(Tail(chars)))

\* l.346 with the template repl: the text with every match replaced, or the
\* error of the template
Substituted(pk, repl) ==
    IF repl.ok
    THEN [resolved |-> DirnameSub(pk.text, 1, repl.val), issues |-> pk.issues,
          raised |-> FALSE]
    ELSE [resolved |-> pk.text, issues |-> pk.issues, raised |-> TRUE]

\* l.343-348: pk is the outcome of FIND_PKG_RE.sub
WithDirname(pk, current_file) ==
    IF \E i \in DOMAIN pk.text : DirnameMatch(pk.text, i) # 0
    THEN Substituted(pk, ExpandTemplate(StrOfPath(Parent(current_file))))
    ELSE [resolved |-> pk.text, issues |-> pk.issues, raised |-> FALSE]

\* resolve_path_substitutions(expr, current_file, isolated_ci): [resolved,
\* issues], raised telling that the call raised instead of returning
resolve_path_substitutions(expr, current_file, isolated_ci) ==
    WithDirname(FindPkgSub(expr, 1, current_file, isolated_ci), current_file)

----------------------------------------------------------------------------
(* YAML documents and the duplicate-key-safe loader                        *)

PyNone == [tag |-> "null", val |-> <<>>]
PyStr(s) == [tag |-> "str", val |-> s]
PyInt(n) == [tag |-> "int", val |-> n]
PyList(items) == [tag |-> "seq", val |-> items]
\* a mapping node / a dict: its (key, value) pairs in source / insertion order
PyDict(pairs) == [tag |-> "map", val |-> pairs]

Keys(m) == { m.val[i][1] : i \in DOMAIN m.val }

\* dict.get(key): the value, or None
Get(m, key) ==
    IF key \in Keys(m)
    THEN m.val[CHOOSE i \in DOMAIN m.val : m.val[i][1] = key][2]
    ELSE PyNone


DuplicateKey == "found duplicate key"
SyntaxError == "syntax error"

\* UniqueKeyLoader.construct_mapping / construct_object over a composed node
\* tree.  construct_pairs(pairs, i, mapping) is the loop of construct_mapping
\* from pair i on, mapping being the dict built so far.
RECURSIVE construct_object(_)
RECURSIVE construct_pairs(_, _, _)
RECURSIVE construct_items(_, _, _)

construct_pairs(pairs, i, mapping) ==
    IF i > Len(pairs) THEN Return(PyDict(mapping))
    ELSE LET key == pairs[i][1]
         IN  IF key \in Keys(PyDict(mapping)) THEN Raise(DuplicateKey)
             ELSE LET value == construct_object(pairs[i][2])
                  IN  IF ~value.ok THEN value
                      ELSE construct_pairs(pairs, i + 1,
                                           Append(mapping, <<key, value.val>>))

\* mapping[key] = value
Put(mapping, key, value) ==
    IF key \in Keys(PyDict(mapping))
    THEN [j \in DOMAIN mapping |->
            IF mapping[j][1] = key THEN <<key, value>> ELSE mapping[j]]
    ELSE Append(mapping, <<key, value>>)

\* the loop of construct_mapping without the `if key in mapping` of l.66-72
RECURSIVE overwrite_pairs(_, _, _)
overwrite_pairs(pairs, i, mapping) ==
    IF i > Len(pairs) THEN Return(PyDict(mapping))
    ELSE LET value == construct_object(pairs[i][2])
         IN  IF ~value.ok THEN value
             ELSE overwrite_pairs(pairs, i + 1,
                                  Put(mapping, pairs[i][1], value.val))

\* construct_mapping as yaml.SafeLoader has it: the later value wins
construct_mapping_last_wins(node) == overwrite_pairs(node.val, 1, <<>>)

\* UniqueKeyLoader.construct_mapping(node) (l.63-76)
construct_mapping(node) == construct_pairs(node.val, 1, <<>>)

construct_items(items, i, acc) ==
    IF i > Len(items) THEN Return(PyList(acc))
    ELSE LET value == construct_object(items[i])
         IN  IF ~value.ok THEN value
             ELSE construct_items(items, i + 1, Append(acc, value.val))

construct_object(node) ==
    IF node.tag = "map" THEN construct_mapping(node)
    ELSE IF node.tag = "seq" THEN construct_items(node.val, 1, <<>>)
    ELSE Return(node)

\* load_yaml(path) on file content [syntax_ok, root]: the scanner/parser
\* rejects the text, or the composed root node is constructed.
load_yaml(content) ==
    IF ~content.syntax_ok THEN Raise(SyntaxError)
    ELSE construct_object(content.root)

----------------------------------------------------------------------------
(* Helpers for classification & traversal                                  *)

\* words that contain the substring "launch"
\* a name character by character
RECURSIVE NameChars(_)
NameChars(name) ==
    IF name = <<>> THEN <<>> ELSE CharsOf(Head(name)) \o NameChars(Tail(name))

\* sub in s, for strings as character sequences
Contains(s, sub) ==
    \E i \in 1..(Len(s) - Len(sub) + 1) : SubSeq(s, i, i + Len(sub) - 1) = sub

is_launch_data(data) == data.tag = "map" /\ "launch" \in Keys(data)

\* is_launch_file that only looks at the content
is_launch_file_by_content(path, data) == is_launch_data(data)

is_launch_file(path, data) ==
    IF Contains(NameChars(NameOf(path)), CharsOf("launch"))
    THEN TRUE
    ELSE is_launch_data(data)

is_config_file(path, data) == ~is_launch_file(path, data)

is_in_config_dir(path) ==
    \E i \in DOMAIN path.parts : path.parts[i] \in {<<"config">>, <<"configs">>}

RECURSIVE walk_values(_)
RECURSIVE walk_each(_)
walk_each(nodes) ==
    IF nodes = <<>> THEN <<>>
    ELSE walk_values(Head(nodes)) \o walk_each(Tail(nodes))

walk_values(obj) ==
    IF obj.tag = "map" THEN walk_each([i \in DOMAIN obj.val |-> obj.val[i][2]])
    ELSE IF obj.tag = "seq" THEN walk_each(obj.val)
    ELSE IF obj.tag = "str" THEN <<obj.val>>
    ELSE <<>>

RECURSIVE contains_ros_parameters(_)
contains_ros_parameters(obj) ==
    IF obj.tag = "map"
    THEN IF "ros__parameters" \in Keys(obj) THEN TRUE
         ELSE \E i \in DOMAIN obj.val : contains_ros_parameters(obj.val[i][2])
    ELSE IF obj.tag = "seq"
    THEN \E i \in DOMAIN obj.val : contains_ros_parameters(obj.val[i])
    ELSE FALSE

\* ALLOWED_LAUNCH_SUBSTITUTIONS with one verb forgotten
AllowedWithoutEnv ==
    {"find-pkg-share", "find-pkg-prefix", "command", "var", "dirname", "eval",
     "anon"}

\* l.285-294
ALLOWED_LAUNCH_SUBSTITUTIONS ==
    {"find-pkg-share", "find-pkg-prefix", "command", "var", "env", "dirname",
     "eval", "anon"}

\* SUBSTITUTION_RE.finditer(value): group(1) of every match, in order
\*   \$\(\s*([A-Za-z0-9_-]+)
RECURSIVE SubstitutionNames(_, _)
SubstitutionNames(s, i) ==
    IF i + 1 > Len(s) THEN <<>>
    ELSE LET j == SkipWs(s, i + 2)
         IN  IF s[i] = "$" /\ s[i + 1] = "(" /\ j <= Len(s) /\ IsWord(s[j])
             THEN <<s[j]>> \o SubstitutionNames(s, j + 1)
             ELSE SubstitutionNames(s, i + 1)

RECURSIVE UnknownIssues(_, _)
UnknownIssues(path, names) ==
    IF names = <<>> THEN <<>>
    ELSE (IF Head(names) \notin ALLOWED_LAUNCH_SUBSTITUTIONS
          THEN <<Issue(path, "Unknown launch substitution", <<Head(names)>>, <<>>)>>
          ELSE <<>>) \o UnknownIssues(path, Tail(names))

RECURSIVE check_substitutions_in(_, _)
check_substitutions_in(path, values) ==
    IF values = <<>> THEN <<>>
    ELSE UnknownIssues(path, SubstitutionNames(Head(values), 1))
         \o check_substitutions_in(path, Tail(values))

check_launch_substitutions(path, data) ==
    check_substitutions_in(path, walk_values(data))

\* looks_like_path(value)
looks_like_path(value) ==
    \/ \E i \in 1..(Len(value) - 2) :
          /\ value[i] = "$" /\ value[i + 1] = "("
          /\ \/ value[i + 2] \in PkgVerbs
             \/ (i + 3 <= Len(value) /\ value[i + 2] = "dirname" /\ value[i + 3] = ")")
    \/ /\ Len(value) >= 2
       /\ value[Len(value) - 1] = "."
       /\ value[Len(value)] \in {"yaml", "yml"}

\* make_path_relative_to_file(resolved, current_file)
make_path_relative_to_file(resolved, current_file) ==
    LET p == PathOf(resolved)
    IN  IF p.abs THEN Return(p)
        ELSE ResolveCall(JoinPath(Parent(current_file), p))


----------------------------------------------------------------------------
(* Closest-match suggestion                                                *)

\* str.lower() on one character
LowerChar(c) == IF c = "Q" THEN "q" ELSE IF c = "P" THEN "p" ELSE c

RECURSIVE LowerChars(_)
LowerChars(name) ==
    IF name = <<>> THEN <<>>
    ELSE [i \in DOMAIN CharsOf(Head(name)) |-> LowerChar(CharsOf(Head(name))[i])]
         \o LowerChars(Tail(name))

\* length of the common run of a from i and b from j, inside a[..ahi], b[..bhi]
RECURSIVE RunLen(_, _, _, _, _, _)
RunLen(a, i, ahi, b, j, bhi) ==
    IF i > ahi \/ j > bhi \/ a[i] # b[j] THEN 0
    ELSE 1 + RunLen(a, i + 1, ahi, b, j + 1, bhi)

\* SequenceMatcher.find_longest_match over a[alo..ahi], b[blo..bhi]: the
\* longest block, of those the one starting earliest in a, of those the one
\* starting earliest in b
BestCell(cells) ==
    CHOOSE c \in cells :
        \A d \in cells :
            \/ c.size > d.size
            \/ /\ c.size = d.size
               /\ (c.i < d.i \/ (c.i = d.i /\ c.j <= d.j))

find_longest_match(a, alo, ahi, b, blo, bhi) ==
    BestCell({ [i |-> i, j |-> j, size |-> RunLen(a, i, ahi, b, j, bhi)] :
               i \in alo..ahi, j \in blo..bhi })

\* get_matching_blocks: the total size of the longest block and of the
\* blocks found to its left and to its right
RECURSIVE MatchCount(_, _, _, _, _, _)
MatchAround(a, alo, ahi, b, blo, bhi, m) ==
    IF m.size = 0 THEN 0
    ELSE m.size + MatchCount(a, alo, m.i - 1, b, blo, m.j - 1)
                + MatchCount(a, m.i + m.size, ahi, b, m.j + m.size, bhi)

MatchCount(a, alo, ahi, b, blo, bhi) ==
    IF alo > ahi \/ blo > bhi THEN 0
    ELSE MatchAround(a, alo, ahi, b, blo, bhi,
                     find_longest_match(a, alo, ahi, b, blo, bhi))

\* SequenceMatcher(None, a, b).ratio() = 2*M/T as the fraction <<2M, T>>
Ratio(a, b) ==
    IF Len(a) + Len(b) = 0 THEN <<1, 1>>
    ELSE <<2 * MatchCount(a, 1, Len(a), b, 1, Len(b)), Len(a) + Len(b)>>

FracGt(x, y) == x[1] * y[2] > y[1] * x[2]

\* SIMILARITY_THRESHOLD = 0.5 as the fraction 1/2
SIMILARITY_THRESHOLD == <<1, 2>>

\* the order in which a directory lists its entries (Path.iterdir())
ListingOrder ==
    << <<"launch">>, <<"config">>, <<"misc">>, <<"src">>, <<"install">>,
       <<"demo">>, <<"nav">>, <<"ws">>, <<"opt">>, <<"ros">>, <<"share">>,
       MainLaunch, ChildLaunch, <<"nodes">> \o YAML, <<"p">> \o YAML,
       <<"aux">> \o YAML, <<"bad">> \o YAML, <<"q">> \o YAML, <<"n">> \o YAML,
       PackageXml >>

\* list(directory.iterdir()), as names
DirEntries(dir) ==
    SelectSeq(ListingOrder,
              LAMBDA n : \E f \in AllFiles : IsPrefix(Append(dir, n), f))

\* Higher with `>=` in place of the `>` of l.391
HigherOrEqual(cand, score, best) ==
    IF ~FracGt(best.score, score)
    THEN [score |-> score, candidate |-> [tag |-> "some", val |-> cand]]
    ELSE best

\* l.391-393
Higher(cand, score, best) ==
    IF FracGt(score, best.score)
    THEN [score |-> score, candidate |-> [tag |-> "some", val |-> cand]]
    ELSE best

\* one iteration of the loop of _best_match_in_dir (l.382-393)
Better(cand, name, target_lower, require_dir, best) ==
    IF (require_dir /\ ~IsDir(cand)) \/ (~require_dir /\ ~IsFile(cand)) THEN best
    ELSE Higher(cand, Ratio(target_lower, LowerChars(name)), best)

\* the loop of _best_match_in_dir over entries: [score, candidate]
RECURSIVE BestOver(_, _, _, _, _)
BestOver(entries, dir, target_lower, require_dir, best) ==
    IF entries = <<>> THEN best
    ELSE BestOver(Tail(entries), dir, target_lower, require_dir,
                  Better(AbsPath(Append(dir, Head(entries))), Head(entries),
                         target_lower, require_dir, best))

\* l.394-396
Accepted(best) ==
    IF best.candidate.tag = "some" /\ ~FracGt(SIMILARITY_THRESHOLD, best.score)
    THEN best.candidate ELSE NONE

\* _best_match_in_dir(directory, target_name, require_dir)
best_match_in_dir(dir, target_name, require_dir) ==
    Accepted(BestOver(DirEntries(dir), dir, LowerChars(target_name), require_dir,
                      [score |-> <<0, 1>>, candidate |-> NONE]))

\* the descent of suggest_similar_path over missing_parts from index i
RECURSIVE SuggestDown(_, _, _)
SuggestStep(match, missing_parts, i) ==
    IF match.tag = "none" THEN NONE
    ELSE SuggestDown(match.val.parts, missing_parts, i + 1)

SuggestDown(candidate, missing_parts, i) ==
    IF i > Len(missing_parts) THEN [tag |-> "some", val |-> AbsPath(candidate)]
    ELSE IF ~IsDir(AbsPath(candidate)) THEN NONE
    ELSE SuggestStep(best_match_in_dir(candidate, missing_parts[i],
                                       i < Len(missing_parts)),
                     missing_parts, i)

\* the upward walk of suggest_similar_path (l.400-409): how many leading
\* parts of the target form its deepest ancestor that is a directory
ExistingDepth(parts) ==
    CHOOSE k \in 0..Len(parts) :
        /\ IsDir(AbsPath(SubSeq(parts, 1, k)))
        /\ \A m \in (k + 1)..Len(parts) : ~IsDir(AbsPath(SubSeq(parts, 1, m)))

SuggestFrom(parts, depth) ==
    IF depth = Len(parts) THEN NONE
    ELSE SuggestDown(SubSeq(parts, 1, depth), SubSeq(parts, depth + 1, Len(parts)), 1)

\* suggest_similar_path(target), target absolute
suggest_similar_path(target) == SuggestFrom(target.parts, ExistingDepth(target.parts))

----------------------------------------------------------------------------
(* JSON Schema validation wrapper                                          *)

\* validate_with_schema(data, schema, path, schema_name).  The two schemas
\* are data files outside the sources; rejects is the set of documents
\* jsonschema_validate raises ValidationError for.  At most one issue.
validate_with_schema(data, rejects, path, schema_name) ==
    IF data \in rejects
    THEN <<Issue(path, "validation error", <<schema_name>>, <<>>)>>
    ELSE <<>>


----------------------------------------------------------------------------
(* Launch traversal, reference collection and semantic checks              *)

\* iter_launch_entries(data): [node, include] of every mapping entry
iter_launch_entries(data) ==
    IF data.tag # "map" THEN <<>>
    ELSE LET launch_list == IF "launch" \in Keys(data) THEN Get(data, "launch")
                            ELSE PyList(<<>>)
         IN  IF launch_list.tag # "seq" THEN <<>>
             ELSE LET entries == SelectSeq(launch_list.val, LAMBDA e : e.tag = "map")
                  IN  [i \in DOMAIN entries |->
                         [node |-> Get(entries[i], "node"),
                          include |-> Get(entries[i], "include")]]

\* obj.get(key): only a dict has the method, anything else raises
PyGet(obj, key) ==
    IF obj.tag = "map" THEN Return(Get(obj, key)) ELSE Raise("AttributeError")

\* the issues of r1 followed by those of r2, or the first exception
Then(r1, r2) ==
    IF ~r1.ok THEN r1 ELSE IF ~r2.ok THEN r2 ELSE Return(r1.val \o r2.val)

\* the loop over params (l.478-487, 534-543): the `from` strings of the
\* mapping items of a list-valued param, in order
FromStrings(params) ==
    IF params.tag # "seq" THEN <<>>
    ELSE LET items == SelectSeq(params.val,
                        LAMBDA q : q.tag = "map" /\ Get(q, "from").tag = "str")
         IN  [i \in DOMAIN items |-> Get(items[i], "from").val]

\* the loop over the outcome r of node_data.get("param")
ParamLoop(r) == IF r.ok THEN Return(FromStrings(r.val)) ELSE r

\* the param items of one node_data that the loops reach (l.474-487, 531-543)
FromValues(node_data) ==
    IF node_data.tag # "map" THEN Return(<<>>)
    ELSE ParamLoop(PyGet(node_data, "param"))

\* the refs of r1 joined with those of r2, or the first exception
UnionThen(r1, r2) ==
    IF ~r1.ok THEN r1 ELSE IF ~r2.ok THEN r2 ELSE Return(r1.val \cup r2.val)

\* l.490-491: refs.add(cfg_path.resolve()), cfg_path the outcome of
\* make_path_relative_to_file
AddRef(cfg_path) == IF cfg_path.ok THEN ResolveCall(cfg_path.val) ELSE cfg_path

\* l.488-491: what a resolved param.from value adds to refs
RefOf(r, path) ==
    IF r.raised THEN Raise("re.error")
    ELSE IF ContainsDollarParen(r.resolved) THEN Return({})
    ELSE LET added == AddRef(make_path_relative_to_file(r.resolved, path))
         IN  IF added.ok THEN Return({added.val}) ELSE added

\* one param.from value in collect_config_references_from_launch (l.485-491)
CollectOne(from_value, path) ==
    RefOf(resolve_path_substitutions(from_value, path, TRUE), path)

RECURSIVE CollectAll(_, _)
CollectAll(from_values, path) ==
    IF from_values = <<>> THEN Return({})
    ELSE UnionThen(CollectOne(Head(from_values), path),
                   CollectAll(Tail(from_values), path))

\* the body of the for-loop of l.473-491 for one entry; fv is
\* FromValues(node_data)
CollectEntry(fv, path) == IF fv.ok THEN CollectAll(fv.val, path) ELSE fv

RECURSIVE CollectEntries(_, _)
CollectEntries(entries, path) ==
    IF entries = <<>> THEN Return({})
    ELSE UnionThen(CollectEntry(FromValues(Head(entries).node), path),
                   CollectEntries(Tail(entries), path))

\* collect_config_references_from_launch(path, data)
collect_config_references_from_launch(path, data) ==
    CollectEntries(iter_launch_entries(data), path)

Hint(with_hint, suggestion) ==
    IF with_hint /\ suggestion.tag = "some" THEN StrOfPath(suggestion.val) ELSE <<>>

\* the issue of a missing file
Missing(target, path, text, with_hint) ==
    <<Issue(path, text, StrOfPath(target),
            Hint(with_hint, suggest_similar_path(Resolve(target))))>>

\* MissingIssue that does not look at isolated_ci
MissingIssueAlways(is_file, target, path, isolated_ci, text, with_hint) ==
    IF ~is_file.ok THEN is_file
    ELSE IF ~is_file.val THEN Return(Missing(target, path, text, with_hint))
    ELSE Return(<<>>)

\* the existence check of a resolved path (l.524-529, 546-557, 584-586);
\* is_file is the outcome of target.is_file()
MissingIssue(is_file, target, path, isolated_ci, text, with_hint) ==
    IF ~is_file.ok THEN is_file
    ELSE IF ~is_file.val /\ ~isolated_ci
    THEN Return(Missing(target, path, text, with_hint))
    ELSE Return(<<>>)

\* l.524-525, 546-547, 584-585: the existence check of the outcome of
\* make_path_relative_to_file
CheckExists(cfg_path, path, isolated_ci, text, with_hint) ==
    IF ~cfg_path.ok THEN cfg_path
    ELSE MissingIssue(IsFileCall(cfg_path.val), cfg_path.val, path,
                      isolated_ci, text, with_hint)

\* what follows a call of resolve_path_substitutions in the three checks: its
\* issues, then the existence check unless a "$(" remains; r is its result
AfterResolve(r, path, isolated_ci, text, with_hint) ==
    IF r.raised THEN Raise("re.error")
    ELSE IF ContainsDollarParen(r.resolved) THEN Return(r.issues)
    ELSE Then(Return(r.issues),
              CheckExists(make_path_relative_to_file(r.resolved, path), path,
                          isolated_ci, text, with_hint))

ExistenceIssues(value, path, isolated_ci, text, with_hint) ==
    AfterResolve(resolve_path_substitutions(value, path, isolated_ci), path,
                 isolated_ci, text, with_hint)

RECURSIVE ParamIssues(_, _, _)
ParamIssues(from_values, path, isolated_ci) ==
    IF from_values = <<>> THEN Return(<<>>)
    ELSE Then(ExistenceIssues(Head(from_values), path, isolated_ci,
                              "Parameter file does not exist", TRUE),
              ParamIssues(Tail(from_values), path, isolated_ci))

\* the node.param part of one entry (l.531-557); fv is FromValues(node_data)
NodeIssues(fv, path, isolated_ci) ==
    IF fv.ok THEN ParamIssues(fv.val, path, isolated_ci) ELSE fv

\* an entry with a string include.file (l.512-529), r its resolved value.
\* The `continue` of l.521-522 ends the iteration for the entry, so its
\* node.param items are not reached.
IncludeEntry(entry, r, path, isolated_ci) ==
    Then(AfterResolve(r, path, isolated_ci,
                      "Included launch file does not exist", TRUE),
         IF ContainsDollarParen(r.resolved) THEN Return(<<>>)
         ELSE NodeIssues(FromValues(entry.node), path, isolated_ci))

\* the body of the for-loop of check_launch_semantics for one entry
EntryIssues(entry, path, isolated_ci) ==
    IF entry.include.tag = "map" /\ Get(entry.include, "file").tag = "str"
    THEN IncludeEntry(entry,
                      resolve_path_substitutions(Get(entry.include, "file").val,
                                                 path, isolated_ci),
                      path, isolated_ci)
    ELSE NodeIssues(FromValues(entry.node), path, isolated_ci)

RECURSIVE EntriesIssues(_, _, _)
EntriesIssues(entries, path, isolated_ci) ==
    IF entries = <<>> THEN Return(<<>>)
    ELSE Then(EntryIssues(Head(entries), path, isolated_ci),
              EntriesIssues(Tail(entries), path, isolated_ci))

\* check_launch_semantics(path, data, isolated_ci)
check_launch_semantics(path, data, isolated_ci) ==
    Then(Return(check_launch_substitutions(path, data)),
         EntriesIssues(iter_launch_entries(data), path, isolated_ci))

RECURSIVE ConfigValueIssues(_, _, _)
ConfigValueIssues(values, path, isolated_ci) ==
    IF values = <<>> THEN Return(<<>>)
    ELSE Then(IF looks_like_path(Head(values))
              THEN ExistenceIssues(Head(values), path, isolated_ci,
                                   "Referenced file does not exist", FALSE)
              ELSE Return(<<>>),
              ConfigValueIssues(Tail(values), path, isolated_ci))

\* check_config_semantics(path, data, isolated_ci)
check_config_semantics(path, data, isolated_ci) ==
    ConfigValueIssues(walk_values(data), path, isolated_ci)


----------------------------------------------------------------------------
(* Inputs of the runs                                                      *)

MaxFiles == 2

sExisting == <<"..", "/", "config", "/", "p", ".", "yaml">>
sMissing  == <<"..", "/", "config", "/", "Q", ".", "yaml">>
sPkg      == <<"$", "(", "find-pkg-share", " ", "nav", ")", "/", "config", "/", "n", ".", "yaml">>
sPrefix   == <<"$", "(", "find-pkg-prefix", " ", "nav", " ", ")", "/", "x", ".", "yaml">>
sNested   == <<"$", "(", "find-pkg-share", " ", "$", "(", "var", " ", "x", ")", ")", "/", "a", ".", "yaml">>
sUnknown  == <<"$", "(", "frob", " ", "x", ")", "/", "$", "(", " ", "env", " ", "H", ")", "$", "(", "frob", ")">>
sDirname  == <<"$", "(", "dirname", ")", "/", "child", ".", "launch", ".", "yaml">>
sVar      == <<"$", "(", "var", " ", "cfg", ")">>
sPlain    == <<"demo">>

sShare    == <<"$", "(", "find-pkg-share", " ", "demo_pkg", ")">>
\* a missing file whose name is longer than a name can be, and a name with
\* a NUL in it
\* $(dirname) twice among other placeholders, and inside the argument of one
sDirnames ==
    <<"$", "(", "find-pkg-share", " ", "$", "(", "var", " ", "x", ")", ")", "/",
      "$", "(", "dirname", ")", "/", "$", "(", "find-pkg-share", " ", "nav", ")",
      "$", "(", " ", "dirname", " ", ")", "$", "(", "var", " ", "q", ")">>
sDirnameArg ==
    <<"$", "(", "find-pkg-share", " ", "$", "(", "dirname", ")", ")", "/", "x">>
sLong     == <<"..", "/", "config", "/", LongName, ".", "yaml">>
sNul      == <<"a", Nul, "b", ".", "yaml">>
StringPool ==
    {sExisting, sMissing, sPkg, sPrefix, sNested, sUnknown, sDirname, sVar,
     sPlain, sShare, sLong, sNul, sDirnames, sDirnameArg}

Node(params) == PyDict(<< <<"pkg", PyStr(sPlain)>>, <<"param", params>> >>)
From(v) == PyDict(<< <<"from", v>> >>)
Include(v) == PyDict(<< <<"include", PyDict(<< <<"file", PyStr(v)>> >>)>> >>)

docLaunchOk ==
    PyDict(<< <<"launch", PyList(<< PyDict(<< <<"node", Node(PyList(<<From(PyStr(sExisting))>>))>> >>) >>)>> >>)
docLaunchMissing ==
    PyDict(<< <<"launch", PyList(<<
        Include(sDirname),
        PyDict(<< <<"node", Node(PyList(<<From(PyStr(sMissing)), From(PyStr(sPkg))>>))>> >>) >>)>> >>)
docLaunchOdd ==
    PyDict(<< <<"launch", PyList(<<
        PyStr(sPlain),
        PyDict(<< <<"node", Node(PyStr(sMissing))>> >>),
        PyDict(<< <<"node", Node(PyList(<<PyInt(5), From(PyInt(7)), From(PyStr(sNested))>>))>> >>),
        PyDict(<< <<"include", PyDict(<< <<"file", PyStr(sNested)>> >>)>>,
                  <<"node", Node(PyList(<<From(PyStr(sMissing))>>))>> >>),
        Include(sUnknown) >>)>>,
      <<"note", PyStr(sUnknown)>> >>)
docLaunchNotList == PyDict(<< <<"launch", PyStr(sMissing)>> >>)
docLaunchLong ==
    PyDict(<< <<"launch", PyList(<< PyDict(<< <<"node", Node(PyList(<<From(PyStr(sLong))>>))>> >>) >>)>> >>)
docParams ==
    PyDict(<< <<"node", PyDict(<< <<"ros__parameters",
        PyDict(<< <<"map", PyStr(<<"Q", ".", "yaml">>)>>,
                  <<"other", PyStr(sPkg)>>,
                  <<"verb", PyStr(sUnknown)>>,
                  <<"rate", PyInt(10)>> >>)>> >>)>> >>)
docPlain == PyDict(<< <<"a", PyStr(<<"Q", ".", "yaml">>)>>, <<"b", PyInt(1)>> >>)
docDuplicate == PyDict(<< <<"a", PyInt(1)>>, <<"a", PyInt(2)>> >>)
docNestedDuplicate ==
    PyDict(<< <<"launch", PyList(<< PyDict(<< <<"node", PyInt(1)>>, <<"node", PyInt(2)>> >>) >>)>> >>)

Text(root) == [syntax_ok |-> TRUE, root |-> root]
Malformed == [syntax_ok |-> FALSE, root |-> PyNone]

InLaunch(name)  == RelPath(<< <<"launch">>, name >>)
InConfig(name)  == RelPath(<< <<"config">>, name >>)

\* the candidate input files: [path, content]
FilePool ==
    { [path |-> InLaunch(MainLaunch), content |-> Text(docLaunchOk)],
      [path |-> InLaunch(MainLaunch), content |-> Text(docLaunchMissing)],
      [path |-> InLaunch(ChildLaunch), content |-> Text(docLaunchOdd)],
      [path |-> InLaunch(ChildLaunch), content |-> Malformed],
      [path |-> InLaunch(<<"nodes">> \o YAML), content |-> Text(docLaunchNotList)],
      [path |-> InLaunch(<<"nodes">> \o YAML), content |-> Text(docLaunchLong)],
      [path |-> InConfig(<<"p">> \o YAML), content |-> Text(docPlain)],
      [path |-> InConfig(<<"p">> \o YAML), content |-> Text(docParams)],
      [path |-> InConfig(<<"aux">> \o YAML), content |-> Text(docPlain)],
      [path |-> InConfig(<<"aux">> \o YAML), content |-> Text(PyNone)],
      [path |-> InConfig(<<"bad">> \o YAML), content |-> Text(docDuplicate)],
      [path |-> RelPath(<< <<"misc">>, <<"q">> \o YAML >>), content |-> Text(docParams)] }

\* lists of at most n pool files with pairwise different paths
RECURSIVE FileLists(_)
FileLists(n) ==
    IF n = 0 THEN { <<>> }
    ELSE LET shorter == FileLists(n - 1)
         IN  shorter \cup
             { Append(l, f) : l \in { x \in shorter : Len(x) = n - 1 },
                              f \in FilePool }

DistinctPaths(l) == \A i, j \in DOMAIN l : i # j => l[i].path # l[j].path

\* the arguments of check_files
InputLists == { l \in FileLists(MaxFiles) : DistinctPaths(l) }

\* the package environments: no ament index, an index without nav, one with it
EnvPool ==
    { [present |-> FALSE, inst |-> {}],
      [present |-> TRUE, inst |-> {}],
      [present |-> TRUE, inst |-> { <<"nav">> }] }

\* the verdicts of the two schemas: every document accepted, or some rejected
SchemaPool ==
    { [launch |-> {}, config |-> {}],
      [launch |-> {docLaunchMissing, docLaunchNotList},
       config |-> {docParams}] }

InitEnv ==
    /\ \E e \in EnvPool : resolver_present = e.present /\ installed = e.inst
    /\ manifests \in (IF installed = {} THEN ManifestPool ELSE { {} })
    /\ schemas \in SchemaPool


----------------------------------------------------------------------------
(* check_files / validate_files / classify_files as a state machine.       *)
(* isolated_ci only selects which issues are appended, never the control   *)
(* flow, so one run carries the issue list of both values of the flag:     *)
(* all_issues[TRUE] is the list of the run with isolated_ci=True.          *)

Modes == BOOLEAN

FileInfo(path, data, is_launch, has_params) ==
    [path |-> path, data |-> data, is_launch |-> is_launch,
     contains_ros_params |-> has_params, is_param_config |-> FALSE]

\* result before validate_files has returned
Unset == [m \in Modes |-> [issues |-> <<>>, num_launch |-> -1, num_config |-> -1]]

\* the run variables of a specification that does not run check_files
Idle ==
    /\ files = <<>> /\ idx = 0 /\ infos = <<>>
    /\ referenced_config_paths = {} /\ first_pass_issues = <<>>
    /\ all_issues = [m \in Modes |-> <<>>]
    /\ result = Unset /\ exit_code = [m \in Modes |-> -1] /\ visited = <<>>

Init ==
    /\ InitEnv
    /\ files \in InputLists
    /\ pc = "check_files" /\ idx = 0 /\ infos = <<>>
    /\ referenced_config_paths = {} /\ first_pass_issues = <<>>
    /\ all_issues = [m \in Modes |-> <<>>]
    /\ result = Unset /\ exit_code = [m \in Modes |-> -1] /\ visited = <<>>
    /\ fn_in = NONE /\ fn_out = NONE

\* check_files, `if not files: return 0` (l.664-666)
CheckFilesEmpty ==
    /\ pc = "check_files" /\ files = <<>>
    /\ exit_code' = [m \in Modes |-> 0]
    /\ pc' = "returned"
    /\ UNCHANGED <<envVars, files, idx, infos, referenced_config_paths,
                   first_pass_issues, all_issues, result, visited, fn_in, fn_out>>

\* check_files calls validate_files, which calls classify_files (l.674, 697)
CallValidateFiles ==
    /\ pc = "check_files" /\ files # <<>>
    /\ pc' = "classify" /\ idx' = 1
    /\ UNCHANGED <<envVars, files, infos, referenced_config_paths,
                   first_pass_issues, all_issues, result, exit_code, visited,
                   fn_in, fn_out>>

\* what one iteration of the loop of classify_files adds: ok is FALSE when an
\* exception leaves the loop
Outcome(ok, issues, new_infos, refs) ==
    [ok |-> ok, issues |-> issues, infos |-> new_infos, refs |-> refs]

\* l.646-653, refs being the outcome of the reference collection
Classified(path, data, is_launch, refs) ==
    IF ~refs.ok THEN Outcome(FALSE, <<>>, <<>>, {})
    ELSE Outcome(TRUE, <<>>,
                 <<FileInfo(path, data, is_launch, contains_ros_parameters(data))>>,
                 refs.val)

\* l.643-653: a parsed, non-empty document
Parsed(path, data, is_launch) ==
    Classified(path, data, is_launch,
               IF is_launch THEN collect_config_references_from_launch(path, data)
               ELSE Return({}))

\* AfterLoad without the `continue` of l.641
AfterLoadKeepsEmpty(path, loaded) ==
    IF ~loaded.ok
    THEN Outcome(TRUE, <<Issue(path, "YAML syntax error", <<loaded.val>>, <<>>)>>,
                 <<>>, {})
    ELSE IF loaded.val = PyNone
    THEN [Parsed(path, loaded.val, is_launch_file(path, loaded.val))
            EXCEPT !.issues = <<Issue(path, "YAML file is empty", <<>>, <<>>)>>]
    ELSE Parsed(path, loaded.val, is_launch_file(path, loaded.val))

\* the body of the loop of classify_files after load_yaml (l.633-653)
AfterLoad(path, loaded) ==
    IF ~loaded.ok
    THEN Outcome(TRUE, <<Issue(path, "YAML syntax error", <<loaded.val>>, <<>>)>>,
                 <<>>, {})
    ELSE IF loaded.val = PyNone
    THEN Outcome(TRUE, <<Issue(path, "YAML file is empty", <<>>, <<>>)>>, <<>>, {})
    ELSE Parsed(path, loaded.val, is_launch_file(path, loaded.val))

\* an exception nobody catches ends the run
Abort ==
    /\ pc' = "aborted"
    /\ UNCHANGED <<idx, infos, referenced_config_paths, first_pass_issues,
                   all_issues>>

\* ClassifyStep with `=` in place of the `|=` of l.653
ClassifyStepLastOnly(o) ==
    IF ~o.ok THEN Abort
    ELSE /\ first_pass_issues' = first_pass_issues \o o.issues
         /\ infos' = infos \o o.infos
         /\ referenced_config_paths' = o.refs
         /\ idx' = idx + 1
         /\ UNCHANGED <<pc, all_issues>>

\* l.633-653: what one iteration does with the outcome o of its file
ClassifyStep(o) ==
    IF ~o.ok THEN Abort
    ELSE /\ first_pass_issues' = first_pass_issues \o o.issues
         /\ infos' = infos \o o.infos
         /\ referenced_config_paths' = referenced_config_paths \cup o.refs
         /\ idx' = idx + 1
         /\ UNCHANGED <<pc, all_issues>>

\* one iteration of the loop of classify_files (l.632-653)
ClassifyFile ==
    /\ pc = "classify" /\ idx <= Len(files)
    /\ ClassifyStep(AfterLoad(files[idx].path, load_yaml(files[idx].content)))
    /\ visited' = Append(visited, <<1, files[idx].path>>)
    /\ UNCHANGED <<envVars, files, result, exit_code, fn_in, fn_out>>

\* classify_files returns; all_issues.extend(first_pass_issues) (l.655, 698)
ClassifyReturn ==
    /\ pc = "classify" /\ idx > Len(files)
    /\ all_issues' = [m \in Modes |-> all_issues[m] \o first_pass_issues]
    /\ pc' = "second_pass" /\ idx' = 1
    /\ UNCHANGED <<envVars, files, infos, referenced_config_paths,
                   first_pass_issues, result, exit_code, visited, fn_in, fn_out>>

\* IsParamConfig with the two conditions of l.714-718 joined by `or`
IsParamConfigEither(info, refs) ==
    is_in_config_dir(info.path)
    \/ (info.contains_ros_params \/ Resolve(info.path) \in refs)

\* the decision of l.713-719
IsParamConfig(info, refs) ==
    is_in_config_dir(info.path)
    /\ (info.contains_ros_params \/ Resolve(info.path) \in refs)

\* SecondPassIssues with the semantic checks ahead of the schema validation
SecondPassIssuesSemanticFirst(info, isolated_ci) ==
    IF info.is_launch
    THEN Then(check_launch_semantics(info.path, info.data, isolated_ci),
              Return(validate_with_schema(info.data, schemas.launch, info.path,
                                          "launch-schema")))
    ELSE IF IsParamConfig(info, referenced_config_paths)
         THEN Then(check_config_semantics(info.path, info.data, isolated_ci),
                   Return(validate_with_schema(info.data, schemas.config,
                                               info.path, "config-schema")))
         ELSE Return(<<>>)

\* SecondPassIssues without the `if info.is_param_config` of l.721
SecondPassIssuesEveryConfig(info, isolated_ci) ==
    IF info.is_launch
    THEN Then(Return(validate_with_schema(info.data, schemas.launch, info.path,
                                          "launch-schema")),
              check_launch_semantics(info.path, info.data, isolated_ci))
    ELSE Then(Return(validate_with_schema(info.data, schemas.config,
                                          info.path, "config-schema")),
              check_config_semantics(info.path, info.data, isolated_ci))

\* the issues one iteration of the second loop appends (l.705-726)
SecondPassIssues(info, isolated_ci) ==
    IF info.is_launch
    THEN Then(Return(validate_with_schema(info.data, schemas.launch, info.path,
                                          "launch-schema")),
              check_launch_semantics(info.path, info.data, isolated_ci))
    ELSE IF IsParamConfig(info, referenced_config_paths)
         THEN Then(Return(validate_with_schema(info.data, schemas.config,
                                               info.path, "config-schema")),
                   check_config_semantics(info.path, info.data, isolated_ci))
         ELSE Return(<<>>)

\* the effect of one iteration of the second loop; found[m] is what the
\* iteration finds with isolated_ci = m
SecondPassStep(found) ==
    IF \E m \in Modes : ~found[m].ok
    THEN Abort
    ELSE /\ all_issues' = [m \in Modes |-> all_issues[m] \o found[m].val]
         /\ infos' = [infos EXCEPT ![idx].is_param_config =
                         IF infos[idx].is_launch THEN @
                         ELSE IsParamConfig(infos[idx], referenced_config_paths)]
         /\ idx' = idx + 1
         /\ UNCHANGED <<pc, referenced_config_paths, first_pass_issues>>

\* one iteration of the second loop of validate_files (l.701-726)
SecondPassFile ==
    /\ pc = "second_pass" /\ idx <= Len(infos)
    /\ SecondPassStep([m \in Modes |-> SecondPassIssues(infos[idx], m)])
    /\ visited' = Append(visited, <<2, infos[idx].path>>)
    /\ UNCHANGED <<envVars, files, result, exit_code, fn_in, fn_out>>

\* ValidationResult whose num_config counts the parameter configs only
ValidationResultParamConfigs(issues) ==
    [issues |-> issues,
     num_launch |-> Cardinality({ i \in DOMAIN infos : infos[i].is_launch }),
     num_config |-> Cardinality({ i \in DOMAIN infos : infos[i].is_param_config })]

\* ValidationResult(issues, num_launch, num_config) (l.728-735)
ValidationResult(issues) ==
    [issues |-> issues,
     num_launch |-> Cardinality({ i \in DOMAIN infos : infos[i].is_launch }),
     num_config |-> Cardinality({ i \in DOMAIN infos : ~infos[i].is_launch })]

\* ValidationResult.error_count (l.186-188)
error_count(r) == Cardinality({ i \in DOMAIN r.issues : r.issues[i].kind = "error" })

\* ValidationResult.error_files (l.182-184)
error_files(r) == { r.issues[i].path : i \in { j \in DOMAIN r.issues : r.issues[j].kind = "error" } }

\* validate_files returns (l.728-735)
ValidateReturn ==
    /\ pc = "second_pass" /\ idx > Len(infos)
    /\ result' = [m \in Modes |-> ValidationResult(all_issues[m])]
    /\ pc' = "validated"
    /\ UNCHANGED <<envVars, files, idx, infos, referenced_config_paths,
                   first_pass_issues, all_issues, exit_code, visited, fn_in, fn_out>>

\* ExitStatus that looks at the number of files instead of the errors
ExitStatusByFiles(r) == IF r.num_launch + r.num_config = 0 THEN 1 ELSE 0

\* check_files: `return 1 if result.error_count else 0` (l.689)
ExitStatus(r) == IF error_count(r) # 0 THEN 1 ELSE 0

CheckFilesReturn ==
    /\ pc = "validated"
    /\ exit_code' = [m \in Modes |-> ExitStatus(result[m])]
    /\ pc' = "returned"
    /\ UNCHANGED <<envVars, files, idx, infos, referenced_config_paths,
                   first_pass_issues, all_issues, result, visited, fn_in, fn_out>>

Next ==
    \/ CheckFilesEmpty
    \/ CallValidateFiles
    \/ ClassifyFile
    \/ ClassifyReturn
    \/ SecondPassFile
    \/ ValidateReturn
    \/ CheckFilesReturn

Spec == Init /\ [][Next]_vars


----------------------------------------------------------------------------
(* Properties of check_files / validate_files                              *)

Finished == pc \in {"validated", "returned"}
PastClassify == pc \in {"second_pass", "validated", "returned"}

\* position of the input file with this path
FileIndex(path) == CHOOSE i \in DOMAIN files : files[i].path = path
IssuesAt(issues, path) == SelectSeq(issues, LAMBDA x : x.path = path)
PathsOf(fs) == [i \in DOMAIN fs |-> fs[i].path]

\* the issues the second loop of validate_files appended
PassTwo(m) == SubSeq(all_issues[m], Len(first_pass_issues) + 1, Len(all_issues[m]))

IsLoadIssue(x) == x.message.text \in {"YAML syntax error", "YAML file is empty"}
IsSchemaIssue(x) == x.message.text = "validation error"

OrderedByFile(issues) ==
    \A p, q \in DOMAIN issues :
        p < q => FileIndex(issues[p].path) <= FileIndex(issues[q].path)

SchemaFirst(issues) ==
    \A p, q \in DOMAIN issues :
        (p < q /\ issues[p].path = issues[q].path /\ IsSchemaIssue(issues[q]))
            => IsSchemaIssue(issues[p])

\* C2 as claimed: in the issue sequence validate_files returns, every issue
\* of a file f listed before a file g precedes every issue of g (parse-error
\* and empty-document issues included), and within a file every schema issue
\* precedes every semantic issue.
C2_FileOrder ==
    pc = "returned" =>
        \A m \in Modes : OrderedByFile(all_issues[m]) /\ SchemaFirst(all_issues[m])

\* C2 amended: the issue sequence validate_files returns is the pass-1 issues
\* (parse-error and empty-document issues, and only those) in input order,
\* followed by the pass-2 issues in input order of the parsed files; within a
\* file every schema issue precedes every semantic issue.
C2_PassOrder ==
    (pc = "returned" /\ files # <<>>) =>
        \A m \in Modes :
            /\ Len(all_issues[m]) >= Len(first_pass_issues)
            /\ SubSeq(all_issues[m], 1, Len(first_pass_issues)) = first_pass_issues
            /\ \A i \in DOMAIN first_pass_issues : IsLoadIssue(first_pass_issues[i])
            /\ \A i \in DOMAIN PassTwo(m) : ~IsLoadIssue(PassTwo(m)[i])
            /\ OrderedByFile(first_pass_issues)
            /\ OrderedByFile(PassTwo(m))
            /\ SchemaFirst(all_issues[m])

\* a run where a parsed file with a schema issue and a semantic issue is
\* listed before a file that fails in pass 1
C2_PassOrderWitness ==
    /\ pc = "returned"
    /\ ~OrderedByFile(all_issues[FALSE])
    /\ \E p, q \in DOMAIN all_issues[FALSE] :
          /\ p < q
          /\ all_issues[FALSE][p].path = all_issues[FALSE][q].path
          /\ IsSchemaIssue(all_issues[FALSE][p])
          /\ ~IsSchemaIssue(all_issues[FALSE][q])

Suppressed(x) ==
    x.message.text \in {"Cannot resolve package",
                        "Included launch file does not exist",
                        "Parameter file does not exist",
                        "Referenced file does not exist"}

\* C3: the issue sequence with isolated_ci=True is the issue sequence with
\* isolated_ci=False on the same files with every missing-file issue and
\* every cannot-resolve-package issue removed; the other issues are the same
\* and in the same order in both modes.
C3_IsolatedCi ==
    /\ all_issues[TRUE] = SelectSeq(all_issues[FALSE], LAMBDA x : ~Suppressed(x))
    /\ \A i \in DOMAIN all_issues[TRUE] : ~Suppressed(all_issues[TRUE][i])

\* a finished run whose two sequences differ by both kinds of suppressed
\* issue and share an issue that is kept
C3_IsolatedCiWitness ==
    /\ pc = "returned"
    /\ all_issues[TRUE] # <<>>
    /\ \E i \in DOMAIN all_issues[FALSE] :
          all_issues[FALSE][i].message.text = "Cannot resolve package"
    /\ \E i \in DOMAIN all_issues[FALSE] :
          all_issues[FALSE][i].message.text = "Parameter file does not exist"

RECURSIVE KeyAtSomeDepth(_, _)
KeyAtSomeDepth(obj, key) ==
    \/ obj.tag = "map" /\ \E i \in DOMAIN obj.val :
          obj.val[i][1] = key \/ KeyAtSomeDepth(obj.val[i][2], key)
    \/ obj.tag = "seq" /\ \E i \in DOMAIN obj.val : KeyAtSomeDepth(obj.val[i], key)

\* the references of the launch files of the run
RunReferences ==
    UNION { collect_config_references_from_launch(infos[k].path, infos[k].data).val :
            k \in { j \in DOMAIN infos : infos[j].is_launch } }

HasConfigSegment(path) ==
    \E i \in DOMAIN path.parts : path.parts[i] = <<"config">> \/ path.parts[i] = <<"configs">>

\* C4: after validate_files, a parsed non-launch file has is_param_config
\* exactly when its path has a segment config or configs and (its document
\* has a ros__parameters key at some depth or its resolved path is among the
\* references collected from the launch files of the run).
C4_ParamConfig ==
    Finished =>
        \A k \in DOMAIN infos :
            ~infos[k].is_launch =>
                (infos[k].is_param_config <=>
                    /\ HasConfigSegment(infos[k].path)
                    /\ \/ KeyAtSomeDepth(infos[k].data, "ros__parameters")
                       \/ Resolve(infos[k].path) \in RunReferences)

\* a run with a config file without ros__parameters that is a parameter
\* config because a launch file of the run references it
C4_ParamConfigWitness ==
    /\ pc = "returned"
    /\ \E k \in DOMAIN infos :
          /\ ~infos[k].is_launch /\ infos[k].is_param_config
          /\ ~KeyAtSomeDepth(infos[k].data, "ros__parameters")
          /\ Resolve(infos[k].path) \in RunReferences

FailsToLoad(content) ==
    ~load_yaml(content).ok \/ load_yaml(content).val = PyNone

InfosAt(path) == { k \in DOMAIN infos : infos[k].path = path }

\* C5: after pass 1, a file that fails to parse or is empty has exactly one
\* pass-1 issue, no FileInfo, contributes no reference and gets no pass-2
\* issue; a file that parses to a non-empty document has exactly one FileInfo
\* and no pass-1 issue.
C5_PassOne ==
    PastClassify =>
        /\ \A i \in DOMAIN files :
              IF FailsToLoad(files[i].content)
              THEN /\ Len(IssuesAt(first_pass_issues, files[i].path)) = 1
                   /\ InfosAt(files[i].path) = {}
                   /\ \A m \in Modes : IssuesAt(PassTwo(m), files[i].path) = <<>>
              ELSE /\ IssuesAt(first_pass_issues, files[i].path) = <<>>
                   /\ Cardinality(InfosAt(files[i].path)) = 1
        /\ referenced_config_paths = RunReferences

\* a finished run with a file of each outcome, the parsed one with issues
C5_PassOneWitness ==
    /\ pc = "returned" /\ Len(files) = 2
    /\ FailsToLoad(files[1].content) /\ ~FailsToLoad(files[2].content)
    /\ IssuesAt(all_issues[FALSE], files[2].path) # <<>>
    /\ referenced_config_paths # {}

C7_Allowed ==
    {"find-pkg-share", "find-pkg-prefix", "dirname", "var", "env", "command",
     "eval", "anon"}

\* the positions of s where a placeholder starts whose verb is not allowed
UnknownOccurrences(s) ==
    { i \in 1..(Len(s) - 1) :
        /\ s[i] = "$" /\ s[i + 1] = "("
        /\ SkipWs(s, i + 2) <= Len(s)
        /\ IsWord(s[SkipWs(s, i + 2)])
        /\ s[SkipWs(s, i + 2)] \notin C7_Allowed }

RECURSIVE CountUnknown(_)
CountUnknown(values) ==
    IF values = <<>> THEN 0
    ELSE Cardinality(UnknownOccurrences(Head(values))) + CountUnknown(Tail(values))

UnknownIssuesAt(issues, path) ==
    SelectSeq(issues, LAMBDA x : x.path = path
                                 /\ x.message.text = "Unknown launch substitution")

\* C7: for every launch document validate_files processes, the number of
\* unknown-substitution issues is the number of occurrences of a placeholder
\* with a verb outside the allowed set in its string values, with
\* isolated_ci=True and isolated_ci=False alike, and no such issue names an
\* allowed verb.
C7_UnknownSubstitutions ==
    Finished =>
        \A k \in DOMAIN infos : \A m \in Modes :
            infos[k].is_launch =>
                /\ Len(UnknownIssuesAt(all_issues[m], infos[k].path))
                      = CountUnknown(walk_values(infos[k].data))
                /\ \A i \in DOMAIN UnknownIssuesAt(all_issues[m], infos[k].path) :
                      UnknownIssuesAt(all_issues[m], infos[k].path)[i].message.arg[1]
                          \notin C7_Allowed

\* a launch document with the same unknown verb twice in one string, in two
\* strings, next to an allowed verb
C7_UnknownSubstitutionsWitness ==
    /\ pc = "returned"
    /\ \E k \in DOMAIN infos :
          /\ infos[k].is_launch
          /\ sUnknown \in SeqToSet(walk_values(infos[k].data))
          /\ Len(UnknownIssuesAt(all_issues[TRUE], infos[k].path)) = 4

HasError(issues) == \E i \in DOMAIN issues : issues[i].kind = "error"

\* C8: check_files returns 0 exactly when the run found no error-severity
\* issue and 1 otherwise; with an empty file list it returns 0, reports no
\* issue and processes nothing.
C8_ExitStatus ==
    pc = "returned" =>
        /\ \A m \in Modes : exit_code[m] \in {0, 1}
        /\ files # <<>> =>
              \A m \in Modes :
                  /\ exit_code[m] = 0 <=> ~HasError(result[m].issues)
                  /\ result[m].issues = all_issues[m]
        /\ files = <<>> =>
              /\ \A m \in Modes : exit_code[m] = 0 /\ all_issues[m] = <<>>
              /\ visited = <<>> /\ infos = <<>> /\ first_pass_issues = <<>>

\* a run of files whose only issues are suppressed with isolated_ci=True:
\* status 0 in that mode, 1 in the other
C8_ExitStatusWitness ==
    /\ pc = "returned" /\ files # <<>>
    /\ exit_code[TRUE] = 0 /\ exit_code[FALSE] = 1

Visits(pass) ==
    [i \in DOMAIN SelectSeq(visited, LAMBDA e : e[1] = pass) |->
        SelectSeq(visited, LAMBDA e : e[1] = pass)[i][2]]

\* C9: validate_files always runs to completion.  No exception leaves the
\* run (it is never aborted); each loop visits the files in order, one per
\* iteration, so the run is finite; and when validate_files has returned
\* every input file has been through the first loop, every parsed file
\* through the second, and the result holds the issues found.
C9_RunsToCompletion ==
    /\ pc \in {"check_files", "classify", "second_pass", "validated", "returned"}
    /\ IsPrefix(Visits(1), PathsOf(files))
    /\ IsPrefix(Visits(2), PathsOf(infos))
    /\ pc = "classify" => Len(Visits(1)) = idx - 1
    /\ pc = "second_pass" => Len(Visits(2)) = idx - 1
    /\ (Finished /\ files # <<>>) =>
          /\ Visits(1) = PathsOf(files)
          /\ Visits(2) = PathsOf(infos)
          /\ \A m \in Modes :
                /\ result[m].issues = all_issues[m]
                /\ result[m].num_launch + result[m].num_config = Len(infos)


----------------------------------------------------------------------------
(* resolve_path_substitutions called directly                              *)

Dummy == RelPath(<< <<"dummy">> \o YAML >>)

\* a launch file in a directory whose name holds a backslash
InOddDir == RelPath(<< <<"a", Backslash, "q">>, MainLaunch >>)

ResolveInputs ==
    [expr : StringPool, current_file : {Dummy, InLaunch(MainLaunch), InOddDir},
     isolated_ci : BOOLEAN]

InitResolve ==
    /\ InitEnv /\ Idle
    /\ pc = "call_resolve"
    /\ fn_in \in ResolveInputs
    /\ fn_out = [resolved |-> <<>>, issues |-> <<>>, raised |-> FALSE]

CallResolve ==
    /\ pc = "call_resolve"
    /\ fn_out' = resolve_path_substitutions(fn_in.expr, fn_in.current_file,
                                            fn_in.isolated_ci)
    /\ pc' = "resolved"
    /\ UNCHANGED <<envVars, files, idx, infos, referenced_config_paths,
                   first_pass_issues, all_issues, result, exit_code, visited,
                   fn_in>>

NextResolve == CallResolve

SpecResolve == InitResolve /\ [][NextResolve]_vars

\* the package named by the $(find-pkg-share pkg) of the two pool strings
\* that consist of nothing else the function rewrites
SharePkg == IF fn_in.expr = sShare THEN <<"demo_pkg">> ELSE <<"nav">>

\* C1 as claimed: for a string containing $(find-pkg-share pkg), with the
\* resolver None and no local package named pkg, resolve_path_substitutions
\* returns the string unchanged with exactly one issue when isolated_ci is
\* False and with zero issues when isolated_ci is True.
C1_OneIssueWithoutResolver ==
    (/\ pc = "resolved"
     /\ fn_in.expr \in {sShare, sPkg}
     /\ ~resolver_present
     /\ find_local_package_path(SharePkg, fn_in.current_file).tag = "none")
        => /\ fn_out.resolved = fn_in.expr
           /\ Len(fn_out.issues) = (IF fn_in.isolated_ci THEN 0 ELSE 1)


----------------------------------------------------------------------------
(* load_yaml called directly                                               *)

MaxPairs == 3

LoadKeys == {"a", "b"}
LoadLeaves == {PyInt(1), PyStr(sPlain)}

\* the mapping nodes of at most n pairs over LoadKeys and LoadLeaves
MappingNodes(n) ==
    { PyDict(pairs) :
        pairs \in UNION { [1..k -> { <<key, leaf>> : key \in LoadKeys,
                                                     leaf \in LoadLeaves }] :
                          k \in 0..n } }

\* node trees that hold the mapping m at the root, in a sequence, as a value
\* of a mapping, two levels down, and next to a repeated key of the parent
Around(m) ==
    { m,
      PyList(<<m>>),
      PyList(<<PyInt(1), m>>),
      PyDict(<< <<"k", m>> >>),
      PyDict(<< <<"k", PyList(<<m>>)>> >>),
      PyList(<<PyDict(<< <<"k", m>> >>)>>),
      PyDict(<< <<"k", m>>, <<"k", PyInt(1)>> >>) }

LoadInputs ==
    {Malformed, Text(PyNone), Text(docDuplicate), Text(docNestedDuplicate),
     Text(docLaunchOk)}
    \cup { Text(root) : root \in UNION { Around(m) : m \in MappingNodes(MaxPairs) } }

InitLoad ==
    /\ InitEnv /\ Idle
    /\ pc = "call_load"
    /\ fn_in \in LoadInputs
    /\ fn_out = Return(PyNone)

CallLoad ==
    /\ pc = "call_load"
    /\ fn_out' = load_yaml(fn_in)
    /\ pc' = "loaded"
    /\ UNCHANGED <<envVars, files, idx, infos, referenced_config_paths,
                   first_pass_issues, all_issues, result, exit_code, visited,
                   fn_in>>

NextLoad == CallLoad

SpecLoad == InitLoad /\ [][NextLoad]_vars

\* some mapping of the tree, at any depth, has the same key twice
RECURSIVE HasDuplicateKey(_)
HasDuplicateKey(node) ==
    \/ /\ node.tag = "map"
       /\ \/ \E i, j \in DOMAIN node.val : i < j /\ node.val[i][1] = node.val[j][1]
          \/ \E i \in DOMAIN node.val : HasDuplicateKey(node.val[i][2])
    \/ node.tag = "seq" /\ \E i \in DOMAIN node.val : HasDuplicateKey(node.val[i])

\* C6: load_yaml fails with a duplicate-key error for every well-formed
\* document in which some mapping, at any depth, has the same key twice, and
\* a tree it returns has every pair of the document, none replaced.
C6_DuplicateKeys ==
    pc = "loaded" =>
        /\ (fn_in.syntax_ok /\ HasDuplicateKey(fn_in.root))
              => (~fn_out.ok /\ fn_out.val = DuplicateKey)
        /\ fn_out.ok => (~HasDuplicateKey(fn_in.root) /\ fn_out.val = fn_in.root)

\* a document whose only repeated key is in a mapping inside a sequence
\* inside a mapping, and the error load_yaml raised for it
C6_DuplicateKeysWitness ==
    /\ pc = "loaded"
    /\ fn_in.syntax_ok
    /\ fn_in.root.tag = "map" /\ Len(fn_in.root.val) = 1
    /\ fn_in.root.val[1][2].tag = "seq"
    /\ HasDuplicateKey(fn_in.root.val[1][2].val[1])
    /\ ~fn_out.ok /\ fn_out.val = DuplicateKey


----------------------------------------------------------------------------
(* collect_config_references_from_launch called directly                   *)

MaxParams == 2

\* what a param list may hold: scalars, mappings with and without a string
\* `from`
ParamItems ==
    { PyInt(5), PyStr(sExisting), PyDict(<< <<"name", PyStr(sPlain)>> >>),
      From(PyInt(7)), From(PyNone), From(PyList(<<PyStr(sExisting)>>)),
      From(PyStr(sExisting)), From(PyStr(sMissing)), From(PyStr(sPkg)),
      From(PyStr(sNested)), From(PyStr(sDirname)), From(PyStr(sVar)),
      From(PyStr(sLong)), From(PyStr(sNul)) }

ParamFields ==
    { PyList(items) : items \in UNION { [1..k -> ParamItems] : k \in 0..MaxParams } }
    \cup { PyNone, PyStr(sExisting), From(PyStr(sExisting)) }

NodeFields ==
    { Node(params) : params \in ParamFields }
    \cup { PyNone, PyStr(sExisting), PyList(<<From(PyStr(sExisting))>>),
           PyDict(<< <<"pkg", PyStr(sPlain)>> >>) }

LaunchEntries ==
    { PyDict(<< <<"node", node>> >>) : node \in NodeFields }
    \cup { PyStr(sExisting), PyInt(5), PyNone, PyList(<<From(PyStr(sExisting))>>),
           Include(sDirname) }

\* documents of every shape around one entry
LaunchShapes ==
    UNION { { PyDict(<< <<"launch", PyList(<<entry>>)>> >>),
              PyDict(<< <<"launch", PyList(<<PyStr(sPlain), entry,
                                             PyDict(<< <<"node",
                                                 Node(PyList(<<From(PyStr(sMissing))>>))>> >>)>>)>> >>),
              PyDict(<< <<"launch", entry>> >>),
              PyDict(<< <<"other", PyList(<<entry>>)>> >>),
              PyList(<<entry>>),
              entry } : entry \in LaunchEntries }

InitCollect ==
    /\ InitEnv /\ Idle
    /\ pc = "call_collect"
    /\ fn_in \in [path : {InLaunch(MainLaunch)}, data : LaunchShapes]
    /\ fn_out = Return({})

CallCollect ==
    /\ pc = "call_collect"
    /\ fn_out' = collect_config_references_from_launch(fn_in.path, fn_in.data)
    /\ pc' = "collected"
    /\ UNCHANGED <<envVars, files, idx, infos, referenced_config_paths,
                   first_pass_issues, all_issues, result, exit_code, visited,
                   fn_in>>

NextCollect == CallCollect

SpecCollect == InitCollect /\ [][NextCollect]_vars

\* the items of a list that are mappings
MappingsIn(list) == { list.val[i] : i \in { j \in DOMAIN list.val : list.val[j].tag = "map" } }

HasStringFrom(item) == Get(item, "from").tag = "str"

\* what one `from` value contributes
Contribution(value, path) ==
    IF ContainsDollarParen(resolve_path_substitutions(value, path, TRUE).resolved)
    THEN {}
    ELSE { Resolve(JoinPath(Parent(path),
                            PathOf(resolve_path_substitutions(value, path, TRUE).resolved))) }

\* the string `from` values of the node.param[] items of the launch entries
StringFroms(data) ==
    IF data.tag = "map" /\ Get(data, "launch").tag = "seq"
    THEN { Get(item, "from").val :
             item \in { q \in UNION { MappingsIn(Get(Get(entry, "node"), "param")) :
                                      entry \in { e \in MappingsIn(Get(data, "launch")) :
                                                    /\ Get(e, "node").tag = "map"
                                                    /\ Get(Get(e, "node"), "param").tag = "seq" } } :
                        HasStringFrom(q) } }
    ELSE {}

\* C10: collect_config_references_from_launch never raises and never adds
\* an issue, for a launch document of any shape; what it returns is, for each
\* string `from` of a node.param[] item of a launch entry, nothing if the
\* resolved value still contains "$(" and otherwise the absolute normalized
\* path of the value relative to the launch file's directory; everything
\* else is skipped.
C10_CollectReferences ==
    pc = "collected" =>
        /\ fn_out.ok
        /\ fn_out.val = UNION { Contribution(value, fn_in.path) :
                                value \in StringFroms(fn_in.data) }
        /\ first_pass_issues = <<>>
        /\ \A m \in Modes : all_issues[m] = <<>>

----------------------------------------------------------------------------
(* suggest_similar_path on its own                                         *)

MaxMissing == 2

\* the directories the targets hang under: existing ones and one that is not
SuggestBases ==
    { DemoDir, DemoDir \o << <<"launch">> >>, DemoDir \o << <<"config">> >>,
      << <<"nowhere">> >> }

\* the segments appended to a base: misspelt and exact names of directories
\* and files, a name in another case, one that equals two entries equally
\* well, and one that resembles nothing
SuggestNames ==
    { <<"confg">>, <<"config">>, <<"Q">> \o YAML, <<"p">> \o YAML,
      <<"aux", "bad">> \o YAML, <<"child", ".", "launch">>, <<"zzz">> }

SuggestTails == UNION { [1..k -> SuggestNames] : k \in 1..MaxMissing }

SuggestInputs == { AbsPath(b \o t) : b \in SuggestBases, t \in SuggestTails }

InitSuggest ==
    /\ InitEnv /\ Idle
    /\ pc = "call_suggest"
    /\ fn_in \in [target : SuggestInputs]
    /\ fn_out = NONE

CallSuggest ==
    /\ pc = "call_suggest"
    /\ fn_out' = suggest_similar_path(fn_in.target)
    /\ pc' = "suggested"
    /\ UNCHANGED <<envVars, files, idx, infos, referenced_config_paths,
                   first_pass_issues, all_issues, result, exit_code, visited,
                   fn_in>>

NextSuggest == CallSuggest

SpecSuggest == InitSuggest /\ [][NextSuggest]_vars

\* the positions, in the listing of dir, of the entries of the wanted kind
Qualifying(dir, want_dir) ==
    { i \in DOMAIN DirEntries(dir) :
        IF want_dir THEN IsDir(AbsPath(Append(dir, DirEntries(dir)[i])))
        ELSE IsFile(AbsPath(Append(dir, DirEntries(dir)[i]))) }

\* the case-insensitive similarity ratio of entry i of dir to the segment
RatioTo(dir, i, segment) ==
    Ratio(LowerChars(segment), LowerChars(DirEntries(dir)[i]))

\* the entry of the highest ratio, the first-listed one of those
Closest(dir, segment, want_dir) ==
    CHOOSE i \in Qualifying(dir, want_dir) :
        \A j \in Qualifying(dir, want_dir) :
            \/ FracGt(RatioTo(dir, i, segment), RatioTo(dir, j, segment))
            \/ /\ ~FracGt(RatioTo(dir, j, segment), RatioTo(dir, i, segment))
               /\ i <= j

\* the choice of one step: the name chosen, or <<>> when there is none
Chosen(dir, segment, want_dir) ==
    IF Qualifying(dir, want_dir) = {} THEN <<>>
    ELSE IF FracGt(SIMILARITY_THRESHOLD,
                   RatioTo(dir, Closest(dir, segment, want_dir), segment))
    THEN <<>>
    ELSE DirEntries(dir)[Closest(dir, segment, want_dir)]

\* the deepest existing ancestor directory of the target
DeepestDir(parts) ==
    SubSeq(parts, 1,
           CHOOSE k \in 0..Len(parts) :
               /\ IsDir(AbsPath(SubSeq(parts, 1, k)))
               /\ \A m \in (k + 1)..Len(parts) : ~IsDir(AbsPath(SubSeq(parts, 1, m))))

\* the path the claim describes: from dir, one choice per missing segment
RECURSIVE Described(_, _)
Described(dir, segments) ==
    IF segments = <<>> THEN [tag |-> "some", val |-> AbsPath(dir)]
    ELSE IF Chosen(dir, Head(segments), Len(segments) > 1) = <<>> THEN NONE
    ELSE Described(Append(dir, Chosen(dir, Head(segments), Len(segments) > 1)),
                   Tail(segments))

\* C11: suggest_similar_path(target) returns the path obtained by starting
\* at the deepest existing ancestor directory of target and, for each
\* missing segment in turn, choosing among the directory's entries
\* (directories for every segment but the last, files for the last) the one
\* whose case-insensitive similarity ratio to the segment is highest, the
\* first-listed winning a tie; it returns nothing if at some step the best
\* ratio is below 0.5 or no entry qualifies.  The target is a path with
\* missing segments: it is not itself an existing directory.
C11_SuggestSimilarPath ==
    (pc = "suggested" /\ ~IsDir(fn_in.target)) =>
        fn_out = Described(DeepestDir(fn_in.target.parts),
                           SubSeq(fn_in.target.parts,
                                  Len(DeepestDir(fn_in.target.parts)) + 1,
                                  Len(fn_in.target.parts)))

\* a target two segments below an existing directory: the misspelt directory
\* is matched, then the file name that aux.yaml and bad.yaml resemble
\* equally goes to the one listed first
C11_SuggestSimilarPathWitness ==
    /\ pc = "suggested"
    /\ fn_in.target = AbsPath(DemoDir \o << <<"confg">>, <<"aux", "bad">> \o YAML >>)
    /\ Ratio(LowerChars(<<"aux", "bad">> \o YAML), LowerChars(<<"aux">> \o YAML))
         = Ratio(LowerChars(<<"aux", "bad">> \o YAML), LowerChars(<<"bad">> \o YAML))
    /\ fn_out = [tag |-> "some",
                 val |-> AbsPath(DemoDir \o << <<"config">>, <<"aux">> \o YAML >>)]

----------------------------------------------------------------------------
(* check_launch_semantics on its own, isolated_ci = False                  *)

sChild == <<"child", ".", "launch", ".", "yaml">>

\* include.file of an entry: none, an existing file, a missing one, one whose
\* package argument is nested
SemIncludes == { <<>>, <<sChild>>, <<sDirname>>, <<sNested>> }

SemItems ==
    { From(PyStr(sExisting)), From(PyStr(sMissing)), From(PyStr(sPkg)),
      From(PyStr(sNested)), PyInt(5) }

\* node of an entry: none, or a node with a list of at most MaxParams params
SemNodes ==
    { <<>> } \cup
    { << <<"node", Node(PyList(items))>> >> :
        items \in UNION { [1..k -> SemItems] : k \in 0..MaxParams } }

IncludePair(inc) ==
    IF inc = <<>> THEN <<>>
    ELSE << <<"include", PyDict(<< <<"file", PyStr(inc[1])>> >>)>> >>

SemEntries == { PyDict(IncludePair(inc) \o node) : inc \in SemIncludes, node \in SemNodes }

\* launch documents of one entry, alone or followed by a second one
SemDocs ==
    UNION { { PyDict(<< <<"launch", PyList(<<entry>>)>> >>),
              PyDict(<< <<"launch", PyList(<<entry,
                            PyDict(<< <<"include", PyDict(<< <<"file", PyStr(sMissing)>> >>)>>,
                                      <<"node", Node(PyList(<<From(PyStr(sMissing))>>))>> >>)>>)>> >>) } :
            entry \in SemEntries }

InitSemantics ==
    /\ InitEnv /\ Idle
    /\ pc = "call_semantics"
    /\ fn_in \in [path : {InLaunch(MainLaunch)}, data : SemDocs]
    /\ fn_out = Return(<<>>)

CallSemantics ==
    /\ pc = "call_semantics"
    /\ fn_out' = check_launch_semantics(fn_in.path, fn_in.data, FALSE)
    /\ pc' = "checked"
    /\ UNCHANGED <<envVars, files, idx, infos, referenced_config_paths,
                   first_pass_issues, all_issues, result, exit_code, visited,
                   fn_in>>

NextSemantics == CallSemantics

SpecSemantics == InitSemantics /\ [][NextSemantics]_vars

\* the node.param[].from strings of the document, in order
ParamRefs(data) ==
    Flatten([i \in DOMAIN iter_launch_entries(data) |->
                IF iter_launch_entries(data)[i].node.tag = "map"
                THEN FromStrings(Get(iter_launch_entries(data)[i].node, "param"))
                ELSE <<>>])

\* the include.file strings of the document, in order
IncludeRefs(data) ==
    Flatten([i \in DOMAIN iter_launch_entries(data) |->
                IF /\ iter_launch_entries(data)[i].include.tag = "map"
                   /\ Get(iter_launch_entries(data)[i].include, "file").tag = "str"
                THEN <<Get(iter_launch_entries(data)[i].include, "file").val>>
                ELSE <<>>])

ResolvedRef(value, path) == resolve_path_substitutions(value, path, FALSE).resolved

\* the path a resolved reference names, relative to the launch file
RefTarget(value, path) ==
    LET p == PathOf(ResolvedRef(value, path))
    IN  IF p.abs THEN p ELSE Resolve(JoinPath(Parent(path), p))

\* no "$(" remains and the path is not an existing file
IsMissingRef(value, path) ==
    /\ ~ContainsDollarParen(ResolvedRef(value, path))
    /\ ~IsFile(RefTarget(value, path))

\* the issue of a missing reference, with the suggestion when there is one
ExpectedIssue(value, path, text) ==
    Issue(path, text, StrOfPath(RefTarget(value, path)),
          IF suggest_similar_path(Resolve(RefTarget(value, path))).tag = "some"
          THEN StrOfPath(suggest_similar_path(Resolve(RefTarget(value, path))).val)
          ELSE <<>>)

ExpectedIssues(refs, path, text) ==
    [i \in DOMAIN SelectSeq(refs, LAMBDA v : IsMissingRef(v, path)) |->
        ExpectedIssue(SelectSeq(refs, LAMBDA v : IsMissingRef(v, path))[i], path, text)]

OfKind(issues, text) == SelectSeq(issues, LAMBDA i : i.message.text = text)

\* C12: in non-isolated mode check_launch_semantics yields exactly one
\* `Parameter file does not exist` issue for each node.param[].from string,
\* and exactly one `Included launch file does not exist` issue for each
\* include.file string, whose resolved value contains no "$(" and does not
\* name an existing file; the issue carries the closest match whenever
\* suggest_similar_path returns one; an existing file yields no issue.
C12_MissingReferences ==
    pc = "checked" =>
        /\ fn_out.ok
        /\ OfKind(fn_out.val, "Parameter file does not exist")
             = ExpectedIssues(ParamRefs(fn_in.data), fn_in.path,
                              "Parameter file does not exist")
        /\ OfKind(fn_out.val, "Included launch file does not exist")
             = ExpectedIssues(IncludeRefs(fn_in.data), fn_in.path,
                              "Included launch file does not exist")

----------------------------------------------------------------------------
(* Properties of resolve_path_substitutions (SpecResolve)                  *)

\* the input with every $(dirname) replaced by the parent directory of the
\* file, then its package placeholders resolved
DirnameFirst ==
    FindPkgSub(DirnameSub(fn_in.expr, 1, StrOfPath(Parent(fn_in.current_file))),
               1, fn_in.current_file, fn_in.isolated_ci)

\* C13: resolve_path_substitutions replaces every occurrence of $(dirname)
\* in the input string by the parent directory of the file being processed,
\* never fails or produces an issue for it, whatever other placeholders
\* (resolved, unresolved or nested) occur in the same string: the result is
\* that of resolving the packages in the input whose $(dirname) have been
\* replaced, and every issue is about a package.
C13_Dirname ==
    pc = "resolved" =>
        /\ ~fn_out.raised
        /\ fn_out.resolved = DirnameFirst.text
        /\ fn_out.issues = DirnameFirst.issues
        /\ \A i \in DOMAIN fn_out.issues :
              fn_out.issues[i].message.text = "Cannot resolve package"

----------------------------------------------------------------------------
(* is_launch_file and is_config_file on their own                          *)

\* file names with and without "launch" in them: as a word, inside a longer
\* word, across two words, in another case; and a directory named launch
ClassifyPaths ==
    { InLaunch(MainLaunch), InLaunch(<<"nodes">> \o YAML),
      InConfig(<<"re", "launch", "er">> \o YAML),
      InConfig(<<"la", "unch">> \o YAML),
      InConfig(<<"L", "aunch">> \o YAML),
      InConfig(<<"p">> \o YAML),
      RelPath(<< <<"launch">> >>) }

\* documents with the key launch at the root, below it, as a value, in a
\* list, and documents that are no mapping
ClassifyDocs ==
    { docLaunchOk, docLaunchNotList, docPlain, docParams, PyNone, PyInt(1),
      PyStr(<<"launch">>), PyList(<<PyStr(<<"launch">>)>>),
      PyList(<<docLaunchOk>>),
      PyDict(<< <<"a", docLaunchOk>> >>),
      PyDict(<< <<"a", PyStr(<<"launch">>)>> >>),
      PyDict(<< <<"a", PyInt(1)>>, <<"launch", PyNone>> >>) }

InitClassify ==
    /\ InitEnv /\ Idle
    /\ pc = "call_classify"
    /\ fn_in \in [path : ClassifyPaths, data : ClassifyDocs]
    /\ fn_out = [launch |-> FALSE, config |-> FALSE]

CallClassify ==
    /\ pc = "call_classify"
    /\ fn_out' = [launch |-> is_launch_file(fn_in.path, fn_in.data),
                  config |-> is_config_file(fn_in.path, fn_in.data)]
    /\ pc' = "classified"
    /\ UNCHANGED <<envVars, files, idx, infos, referenced_config_paths,
                   first_pass_issues, all_issues, result, exit_code, visited,
                   fn_in>>

NextClassify == CallClassify

SpecClassify == InitClassify /\ [][NextClassify]_vars

\* the last segment of the path is some text, "launch", some text
NameHasLaunch(path) ==
    /\ path.parts # <<>>
    /\ \E k \in 0..Len(NameChars(path.parts[Len(path.parts)])) :
          IsPrefix(<<"l", "a", "u", "n", "c", "h">>,
                   SubSeq(NameChars(path.parts[Len(path.parts)]), k + 1,
                          Len(NameChars(path.parts[Len(path.parts)]))))

\* the root is a mapping with the key launch
RootHasLaunchKey(data) ==
    data.tag = "map" /\ \E i \in DOMAIN data.val : data.val[i][1] = "launch"

\* C14: is_launch_file(path, data) is true if and only if the file name
\* contains the substring "launch" or the parsed root is a mapping with the
\* key "launch"; with "launch" in the name it is true whatever the content;
\* and is_config_file(path, data) is its exact negation.
C14_LaunchOrConfig ==
    pc = "classified" =>
        /\ fn_out.launch <=> (NameHasLaunch(fn_in.path) \/ RootHasLaunchKey(fn_in.data))
        /\ NameHasLaunch(fn_in.path) => fn_out.launch
        /\ fn_out.config <=> ~fn_out.launch

\* a file whose name holds "launch" inside a longer word and whose content
\* is no mapping is a launch file; so is one named without it whose root
\* has the key
C14_LaunchOrConfigWitness ==
    /\ pc = "classified"
    /\ \/ /\ fn_in.path = InConfig(<<"re", "launch", "er">> \o YAML)
          /\ fn_in.data = PyList(<<PyStr(<<"launch">>)>>)
       \/ /\ fn_in.path = InConfig(<<"L", "aunch">> \o YAML)
          /\ fn_in.data = PyDict(<< <<"a", PyInt(1)>>, <<"launch", PyNone>> >>)
    /\ fn_out.launch /\ ~fn_out.config

----------------------------------------------------------------------------
(* More properties of the runs of check_files (Spec)                       *)

\* the references of one input file: those of its document if it is a
\* launch file, none otherwise
LaunchRefsOf(f) ==
    IF /\ load_yaml(f.content).ok
       /\ load_yaml(f.content).val # PyNone
       /\ is_launch_file(f.path, load_yaml(f.content).val)
    THEN collect_config_references_from_launch(f.path, load_yaml(f.content).val).val
    ELSE {}

\* the references of the launch files of the input, wherever they stand
InputReferences == UNION { LaunchRefsOf(files[i]) : i \in DOMAIN files }

\* every decision pass 2 has taken so far is the one the set refs gives
DecidedAgainst(refs) ==
    \A k \in DOMAIN infos :
        (k < idx \/ pc # "second_pass") /\ ~infos[k].is_launch =>
            (infos[k].is_param_config <=>
                /\ is_in_config_dir(infos[k].path)
                /\ \/ infos[k].contains_ros_params
                   \/ Resolve(infos[k].path) \in refs)

\* C15: the reference set is complete before pass 2 starts and is not
\* modified during pass 2: no is_param_config is decided in pass 1; from the
\* start of pass 2 on the set holds the references of every launch file of
\* the input; and every decision of pass 2 is made against that set, so a
\* config file is classified the same before and after the launch file that
\* references it.
C15_ReferenceSnapshot ==
    /\ pc = "classify" => \A k \in DOMAIN infos : ~infos[k].is_param_config
    /\ pc \in {"second_pass", "validated", "returned"} =>
          /\ referenced_config_paths = InputReferences
          /\ DecidedAgainst(InputReferences)

\* pass 2 has just decided that the first file, a config without a
\* parameter block, is a parameter config: the launch file that references
\* it is the second file of the input
C15_ReferenceSnapshotWitness ==
    /\ pc = "second_pass" /\ idx = 2 /\ Len(infos) = 2
    /\ ~infos[1].is_launch /\ ~infos[1].contains_ros_params
    /\ infos[1].is_param_config
    /\ infos[2].is_launch
    /\ Resolve(infos[1].path) \in LaunchRefsOf(files[2])
    /\ LaunchRefsOf(files[1]) = {}

----------------------------------------------------------------------------
(* Package placeholders in resolve_path_substitutions (SpecResolve)        *)

\* the package placeholder the input starts with, and what follows it
Placeholder == FindPkgMatch(fn_in.expr, 1)
AfterPlaceholder == SubSeq(fn_in.expr, Placeholder.end + 1, Len(fn_in.expr))

\* the external lookup is available and fails for the package of the input
LookupFails ==
    /\ fn_in.expr \in {sPkg, sPrefix, sShare}
    /\ resolver_present
    /\ Placeholder.pkg \notin installed

LocallyFound == find_local_package_path(Placeholder.pkg, fn_in.current_file)

\* C16: when the external package lookup is available but fails for a
\* package, local workspace discovery is tried before giving up: if it
\* finds the package the placeholder is replaced by its directory and no
\* issue is produced; if both fail the placeholder is left textually
\* unchanged, with exactly one `Cannot resolve package` issue when
\* isolated_ci is False and none when it is True.
C16_LocalFallback ==
    (pc = "resolved" /\ LookupFails) =>
        IF LocallyFound.tag = "some"
        THEN /\ fn_out.resolved = StrOfPath(LocallyFound.val) \o AfterPlaceholder
             /\ fn_out.issues = <<>>
        ELSE /\ fn_out.resolved = fn_in.expr
             /\ fn_out.issues =
                  IF fn_in.isolated_ci THEN <<>>
                  ELSE <<Issue(fn_in.current_file, "Cannot resolve package",
                               Placeholder.pkg, <<Placeholder.kind>>)>>

\* the lookup fails for nav, the workspace of the file holds the package:
\* the placeholder has become its source directory and there is no issue
C16_LocalFallbackWitness ==
    /\ pc = "resolved" /\ LookupFails /\ ~fn_in.isolated_ci
    /\ fn_in.expr = sPkg
    /\ LocallyFound = [tag |-> "some", val |-> AbsPath(NavDir)]
    /\ fn_out.resolved = StrOfPath(AbsPath(NavDir \o << <<"config">>, <<"n">> \o YAML >>))
    /\ fn_out.issues = <<>>

\* C17: when the package argument of $(find-pkg-share ...) or
\* $(find-pkg-prefix ...) itself contains "$", no lookup and no local
\* discovery is made and no issue produced in either mode: whatever the
\* environment, the placeholder becomes the unresolved marker, which
\* contains "$(", so the callers skip their existence check, report no
\* missing file for the value and collect no reference from it.
C17_NestedArgument ==
    (pc = "resolved" /\ Placeholder.ok /\ "$" \in SeqToSet(Placeholder.pkg)
       /\ fn_in.expr \in {sNested, sDirnameArg}) =>
        /\ ~fn_out.raised
        /\ fn_out.issues = <<>>
        /\ fn_out.resolved = <<"$", "(", "var", " ", "...", ")">> \o AfterPlaceholder
        /\ ContainsDollarParen(fn_out.resolved)
        /\ \A m \in Modes :
              AfterResolve(fn_out, fn_in.current_file, m,
                           "Parameter file does not exist", TRUE) = Return(<<>>)
        /\ RefOf(fn_out, fn_in.current_file) = Return({})

\* $(find-pkg-share $(var x))/a.yaml in non-isolated mode, with a lookup
\* that is available and a workspace without the package
C17_NestedArgumentWitness ==
    /\ pc = "resolved" /\ fn_in.expr = sNested /\ ~fn_in.isolated_ci
    /\ resolver_present /\ manifests = {}
    /\ fn_out.resolved = <<"$", "(", "var", " ", "...", ")", ")", "/", "a", ".", "yaml">>
    /\ fn_out.issues = <<>>

\* a parsed non-launch file that is no parameter config: outside a config
\* or configs directory, or inside one without a parameter block and not
\* referenced by a launch file of the run
PlainConfigFor(info, refs) ==
    /\ ~info.is_launch
    /\ \/ ~HasConfigSegment(info.path)
       \/ /\ ~KeyAtSomeDepth(info.data, "ros__parameters")
          /\ Resolve(info.path) \notin refs

PlainConfig(info) == PlainConfigFor(info, InputReferences)

\* the files of the run that are no parameter config by this description
\* have no is_param_config and no pass-2 issue in either mode, and
\* num_config counts every non-launch file
Unchecked(refs, non_launch) ==
    \A k \in DOMAIN infos :
        PlainConfigFor(infos[k], refs) =>
            /\ ~infos[k].is_param_config
            /\ \A m \in Modes :
                  /\ IssuesAt(PassTwo(m), infos[k].path) = <<>>
                  /\ result[m].num_config = non_launch
                  /\ result[m].num_config >= 1

Excluded == { i \in DOMAIN files : FailsToLoad(files[i].content) }

\* the counts and the issues of the result, excluded being the input files
\* pass 1 excludes
Counted(excluded) ==
        /\ Len(first_pass_issues) = Cardinality(excluded)
        /\ \A i \in excluded : Len(IssuesAt(first_pass_issues, files[i].path)) = 1
        /\ \A m \in Modes :
              /\ result[m].num_launch + result[m].num_config
                   = Len(files) - Cardinality(excluded)
              /\ \A i \in DOMAIN result[m].issues :
                    /\ \E j \in DOMAIN files : files[j].path = result[m].issues[i].path
                    /\ result[m].issues[i].kind = "error"
              /\ error_count(result[m]) = Len(result[m].issues)
              /\ Cardinality(error_files(result[m])) <= Len(result[m].issues)

\* C19: for every run of validate_files, num_launch + num_config is the
\* number of input files minus the number of files excluded in pass 1; each
\* excluded file accounts for exactly one pass-1 issue; every issue of the
\* result carries the path of an input file and the kind error, so
\* error_count is the length of the issue sequence and the number of error
\* files does not exceed it.
C19_Counts ==
    (Finished /\ files # <<>>) => Counted(Excluded)

\* a run with one excluded file and one parsed launch file that has several
\* issues: two files with issues, more issues than that
C19_CountsWitness ==
    /\ pc = "returned" /\ Len(files) = 2 /\ Cardinality(Excluded) = 1
    /\ result[FALSE].num_launch = 1 /\ result[FALSE].num_config = 0
    /\ Len(result[FALSE].issues) > Cardinality(error_files(result[FALSE]))
    /\ Cardinality(error_files(result[FALSE])) = 2

=============================================================================
